---- MODULE Spec2Model ----
(***************************************************************************)
(* A model of the "Discover" aggregation service (src/src/app):            *)
(*   main.py      the four search endpoints and their three TTL caches     *)
(*   overpass.py  the geocoder and the OpenStreetMap (Overpass) adapter     *)
(*   instagram.py the Instagram adapter and its single-worker executor      *)
(*                                                                         *)
(* Eight specifications share the module:                                    *)
(*   Spec       the handlers of the places, instagram and followees         *)
(*              endpoints, one step per stretch of code between two awaits  *)
(*   SpecLegacy the same for the legacy endpoint /api/search                *)
(*   SpecJobs   the two Instagram endpoints with two requests in flight     *)
(*   SpecOsm    the classification / parsing of one Overpass response       *)
(*   SpecOsmCall one call of search_osm: geocoding, then mirror by mirror   *)
(*   SpecIg     one run of _search_sync, one hashtag fetch per step         *)
(*   SpecFol    one run of _fetch_followee_posts_sync, one account per step *)
(*   SpecRace   the places and Instagram endpoints, two requests in flight  *)
(***************************************************************************)
EXTENDS Integers, Sequences, FiniteSets, TLC

VARIABLES
    \* ---- Spec: process-wide state of main.py / overpass.py / instagram.py
    now,              \* time.time(), in seconds
    ticks,            \* number of clock advances so far (bounds the run)
    places_cache,     \* main._places_cache   : key -> [ts, val]
    ig_cache,         \* main._ig_cache       : key -> [ts, val]
    followee_cache,   \* main._followee_cache : key -> [ts, val]
    geocode_cache,    \* overpass._geocode_cache : normalized location -> coords
    logged_in,        \* instagram._logged_in
    ig_env,           \* the Instagram configuration: which of INSTAGRAM_USERNAME,
                      \* the session file and INSTAGRAM_PASSWORD are present
    executor,         \* instagram._executor: [queue, running], the jobs waiting
                      \* and the jobs a worker thread is executing
    req,              \* the in-flight requests, one record per slot
    served,           \* number of requests started so far (bounds the run)
    \* ---- SpecOsm: one Overpass response being classified
    osm_elements,     \* the "elements" array of the response, in arrival order
    osm_out,          \* result of search_osm's classification for that order
    osm_first,        \* result for the order first seen
    \* ---- SpecOsmCall: one call of search_osm, one await per step
    osm_call,         \* the locals of search_osm
    \* ---- SpecIg: one run of _search_sync
    sync,             \* the locals of _search_sync
    \* ---- SpecFol: one run of _fetch_followee_posts_sync
    fol               \* the locals of _fetch_followee_posts_sync

loginVars == <<logged_in, ig_env>>
mainVars == <<now, ticks, places_cache, ig_cache, followee_cache, geocode_cache,
              executor, req, served>>
osmVars  == <<osm_elements, osm_out, osm_first, osm_call>>
igVars   == <<sync, fol>>
vars     == <<mainVars, loginVars, osmVars, igVars>>

\* Python's None (also: "no value yet")
None == [none |-> TRUE]

\* a warning string: its fixed text and the location and category it names
Warn(text, location, cat) == [text |-> text, location |-> location, cat |-> cat]

\* no error message (what the code tests with "if login_err")
NoErr == Warn("", <<>>, "")

(***************************************************************************)
(* Generic sequence helpers.                                               *)
(***************************************************************************)
Range(s) == {s[i] : i \in 1..Len(s)}

SeqsUpTo(S, n) == UNION {[1..k -> S] : k \in 0..n}

RECURSIVE Count(_, _)
Count(x, s) ==
    IF s = <<>> THEN 0
    ELSE (IF Head(s) = x THEN 1 ELSE 0) + Count(x, Tail(s))

IsSubSeq(a, b) ==
    \* a is b with some elements left out, order kept
    \E f \in [1..Len(a) -> 1..Len(b)] :
        /\ \A i \in 1..Len(a) : a[i] = b[f[i]]
        /\ \A i, j \in 1..Len(a) : i < j => f[i] < f[j]

(***************************************************************************)
(* Strings.  A location is a sequence of characters; str.lower() and       *)
(* str.strip() are computed character by character.                        *)
(***************************************************************************)
Chars == {"T", "t", "a", "p", " "}

Lower(c) == IF c = "T" THEN "t" ELSE c

StrLower(s) == [i \in 1..Len(s) |-> Lower(s[i])]

RECURSIVE LStrip(_)
LStrip(s) ==
    IF s # <<>> /\ Head(s) = " " THEN LStrip(Tail(s)) ELSE s

RECURSIVE RStrip(_)
RStrip(s) ==
    IF s # <<>> /\ s[Len(s)] = " " THEN RStrip(SubSeq(s, 1, Len(s) - 1)) ELSE s

StrStrip(s) == LStrip(RStrip(s))

\* location.lower().strip()   (main.py:52, overpass.py:56)
NormLoc(location) == StrStrip(StrLower(location))

(***************************************************************************)
(* overpass.py: classification and parsing of one Overpass response.       *)
(*                                                                         *)
(* An element is [malformed, amenity, tourism, name]: amenity and tourism  *)
(* are tags_el.get(k, "") ("" when the tag is absent), name is             *)
(* tags_el.get("name") or tags_el.get("name:en") ("" when neither is set). *)
(* A malformed element is one that is not a JSON object, so that el.get    *)
(* raises inside the try block of search_osm.                              *)
(***************************************************************************)
_EAT_AMENITY == {"restaurant", "cafe", "bar", "pub", "fast_food", "food_court", "bistro"}

_SLEEP_TOURISM == {"hotel", "hostel", "guest_house", "motel", "apartment"}

ParseLimit == 12

MaxElems == 3

AmenityValues == {"restaurant", "theatre", ""}
TourismValues == {"hotel", ""}
NameValues    == {"n1", "n2", ""}

Elem(a, t, n) == [malformed |-> FALSE, amenity |-> a, tourism |-> t, name |-> n]

BadElem == [malformed |-> TRUE, amenity |-> "", tourism |-> "", name |-> ""]

ElementPool ==
    {Elem(a, t, n) : a \in AmenityValues, t \in TourismValues, n \in NameValues}
    \cup {BadElem}

\* str.replace("_", " ").title() on the tag values the model uses
Title(v) ==
    CASE v = "restaurant" -> "Restaurant"
      [] v = "theatre"    -> "Theatre"
      [] v = "hotel"      -> "Hotel"
      [] OTHER            -> v

\* the mutant: the sleep test taken before the eat test
ClassifyStep_SleepFirst(acc, el) ==
    IF el.tourism \in _SLEEP_TOURISM
    THEN [acc EXCEPT !.sleep = Append(@, el)]
    ELSE IF el.amenity \in _EAT_AMENITY
    THEN [acc EXCEPT !.eat = Append(@, el)]
    ELSE [acc EXCEPT !.do = Append(@, el)]

\* one iteration of the loop of search_osm over the elements
ClassifyStep(acc, el) ==
    IF el.amenity \in _EAT_AMENITY
    THEN [acc EXCEPT !.eat = Append(@, el)]
    ELSE IF el.tourism \in _SLEEP_TOURISM
    THEN [acc EXCEPT !.sleep = Append(@, el)]
    ELSE [acc EXCEPT !.do = Append(@, el)]

RECURSIVE ClassifyLoop(_, _)
ClassifyLoop(els, acc) ==
    IF els = <<>> THEN acc
    ELSE ClassifyLoop(Tail(els), ClassifyStep(acc, Head(els)))

EmptyRaw == [eat |-> <<>>, sleep |-> <<>>, do |-> <<>>]

\* a FoursquarePlace built from an element: its name and its category titles
PlaceOf(el) ==
    [name |-> el.name,
     categories |-> SelectSeq(<<Title(el.amenity), Title(el.tourism)>>,
                              LAMBDA c : c # "")]

\* the mutant: the test on the names already seen left out
ParseStep_NoSeen(st, el) ==
    IF st.stop \/ el.name = "" THEN st
    ELSE LET places == Append(st.places, PlaceOf(el))
         IN  [places |-> places,
              seen   |-> st.seen \cup {el.name},
              stop   |-> Len(places) >= st.limit,
              limit  |-> st.limit]

\* one iteration of the loop of _parse_elements
ParseStep(st, el) ==
    IF st.stop \/ el.name = "" \/ el.name \in st.seen THEN st
    ELSE LET places == Append(st.places, PlaceOf(el))
         IN  [places |-> places,
              seen   |-> st.seen \cup {el.name},
              stop   |-> Len(places) >= st.limit,
              limit  |-> st.limit]

RECURSIVE ParseLoop(_, _)
ParseLoop(els, st) ==
    IF els = <<>> THEN st
    ELSE ParseLoop(Tail(els), ParseStep(st, Head(els)))

_parse_elements(elements, limit) ==
    ParseLoop(elements,
              [places |-> <<>>, seen |-> {}, stop |-> FALSE, limit |-> limit]).places

\* el.get raises on some element of the response
ParseRaises(elements) == \E i \in 1..Len(elements) : elements[i].malformed

OsmParseFailed == Warn("OpenStreetMap parse failed", <<>>, "")

\* search_osm from the classification on: (eat, do, sleep, warnings, coords),
\* with the three raw lists kept beside it
OsmPartition(elements, coords) ==
    IF ParseRaises(elements)
    THEN [raw |-> None, eat |-> <<>>, do |-> <<>>, sleep |-> <<>>,
          warnings |-> <<OsmParseFailed>>, coords |-> coords]
    ELSE LET raw == ClassifyLoop(elements, EmptyRaw)
         IN  [raw |-> raw,
              eat   |-> _parse_elements(raw.eat, ParseLimit),
              do    |-> _parse_elements(raw.do, ParseLimit),
              sleep |-> _parse_elements(raw.sleep, ParseLimit),
              warnings |-> <<>>, coords |-> coords]

\* a (lat, lon) pair, and the absent one
SomeCoords == <<32, 34>>

NoCoords == <<>>

\* the locals of search_osm when no call is under way (m: the index of the
\* mirror the loop is at; log: the mirrors queried and what each did)
OsmCallIdle ==
    [pc |-> "idle", location |-> <<>>, coords |-> NoCoords, m |-> 1,
     log |-> <<>>, result |-> None]

OsmIdle ==
    /\ osm_elements = <<>> /\ osm_out = None /\ osm_first = None
    /\ osm_call = OsmCallIdle

OsmInit ==
    /\ osm_elements \in SeqsUpTo(ElementPool, MaxElems)
    /\ osm_out = None
    /\ osm_first = None
    /\ osm_call = OsmCallIdle

\* classify the response in its current order
OsmRun ==
    /\ osm_out = None
    /\ osm_out' = OsmPartition(osm_elements, SomeCoords)
    /\ osm_first' = IF osm_first = None
                    THEN [elements |-> osm_elements,
                          out |-> OsmPartition(osm_elements, SomeCoords)]
                    ELSE osm_first
    /\ UNCHANGED <<osm_elements, osm_call, mainVars, loginVars, igVars>>

\* the same elements arrive in another order: two neighbours change places
OsmSwap ==
    /\ osm_out # None
    /\ \E i \in 1..(Len(osm_elements) - 1) :
          osm_elements' = [osm_elements EXCEPT ![i] = osm_elements[i + 1],
                                               ![i + 1] = osm_elements[i]]
    /\ osm_out' = None
    /\ UNCHANGED <<osm_first, osm_call, mainVars, loginVars, igVars>>

NextOsm == OsmRun \/ OsmSwap

(***************************************************************************)
(* instagram.py: login, hashtags, and the fetch loop of _search_sync.      *)
(***************************************************************************)
IsAlnum(c) == c \in {"t", "a", "p"}

\* re.sub(r"[^a-z0-9]", "", location.lower())
_slug(location) == SelectSeq(StrLower(location), IsAlnum)

RECURSIVE DedupLoop(_, _)
DedupLoop(tags, kept) ==
    IF tags = <<>> THEN kept
    ELSE DedupLoop(Tail(tags),
                   IF Head(tags) \in Range(kept) THEN kept ELSE Append(kept, Head(tags)))

\* the hashtag f"{pre}{s}{suf}"
Tag(pre, s, suf) == [pre |-> pre, slug |-> s, suf |-> suf]

_hashtags_for(location, category) ==
    LET s == _slug(location)
        eat   == IF category \in {"eat", "all"}
                 THEN <<Tag("", s, "food"), Tag("", s, "foodie"),
                        Tag("", s, "eats"), Tag("", s, "cafe")>>
                 ELSE <<>>
        do    == IF category \in {"do", "all"}
                 THEN <<Tag("", s, ""), Tag("visit", s, ""),
                        Tag("thingstodoin", s, ""), Tag("", s, "life")>>
                 ELSE <<>>
        sleep == IF category \in {"sleep", "all"}
                 THEN <<Tag("", s, "hotel"), Tag("", s, "hotels"),
                        Tag("", s, "airbnb"), Tag("", s, "stay")>>
                 ELSE <<>>
    IN  DedupLoop(eat \o do \o sleep, <<>>)

TagsPerCategory == 3

Take(s, n) == SubSeq(s, 1, IF Len(s) < n THEN Len(s) ELSE n)

\* _hashtags_for(location, cat)[:3]
TagsTried(location, cat) == Take(_hashtags_for(location, cat), TagsPerCategory)

SyncCats == <<"eat", "do", "sleep">>

\* what the configuration can hold
IgEnvs == [username : BOOLEAN, session_file : BOOLEAN, password : BOOLEAN]

\* what Instagram answers to a login attempt: test_login() on a loaded session
\* ("ok", "invalid": returns None, "raise") and login() with the password
LoginOutcomes == [verify : {"ok", "invalid", "raise"}, login : {"ok", "raise"}]

ErrNoUsername == Warn("Instagram: set INSTAGRAM_USERNAME in .env", <<>>, "")
ErrNoSession == Warn("Instagram session not found. Run: python import_instagram_session.py", <<>>, "")
ErrLoginFailed == Warn("Instagram login failed", <<>>, "")

\* the mutant: the test of _logged_in left out
_ensure_login_NoMemo(logged, env, out) ==
    IF ~env.username
    THEN [logged_in |-> FALSE, err |-> ErrNoUsername, ops |-> <<>>]
    ELSE LET session_ops == IF env.session_file
                            THEN <<"load_session", "test_login">>
                            ELSE <<"load_session">>
         IN  IF env.session_file /\ out.verify = "ok"
             THEN [logged_in |-> TRUE, err |-> NoErr, ops |-> session_ops]
             ELSE IF ~env.password
             THEN [logged_in |-> FALSE, err |-> ErrNoSession, ops |-> session_ops]
             ELSE IF out.login = "ok"
             THEN [logged_in |-> TRUE, err |-> NoErr,
                   ops |-> session_ops \o <<"login", "save_session">>]
             ELSE [logged_in |-> FALSE, err |-> ErrLoginFailed,
                   ops |-> session_ops \o <<"login">>]

\* _ensure_login: the new value of _logged_in, the error returned (NoErr when
\* logged in) and the calls made on the loader
_ensure_login(logged, env, out) ==
    IF logged
    THEN [logged_in |-> TRUE, err |-> NoErr, ops |-> <<>>]
    ELSE IF ~env.username
    THEN [logged_in |-> FALSE, err |-> ErrNoUsername, ops |-> <<>>]
    ELSE LET session_ops == IF env.session_file
                            THEN <<"load_session", "test_login">>
                            ELSE <<"load_session">>
         IN  IF env.session_file /\ out.verify = "ok"
             THEN [logged_in |-> TRUE, err |-> NoErr, ops |-> session_ops]
             ELSE IF ~env.password
             THEN [logged_in |-> FALSE, err |-> ErrNoSession, ops |-> session_ops]
             ELSE IF out.login = "ok"
             THEN [logged_in |-> TRUE, err |-> NoErr,
                   ops |-> session_ops \o <<"login", "save_session">>]
             ELSE [logged_in |-> FALSE, err |-> ErrLoginFailed,
                   ops |-> session_ops \o <<"login">>]

\* posts as _parse_post builds them: post_category starts as "all"
Likes(sc) == CASE sc = "s1" -> 1 [] sc = "s2" -> 2 [] OTHER -> 2

Shortcodes == {"s1", "s2"}

Post(sc) == [shortcode |-> sc, likes |-> Likes(sc), post_category |-> "all"]

FetchLimit == 9

MaxFetched == 2

\* what _fetch_tag(tag, limit=9) can return: the first 9 posts of what Instagram
\* lists for the tag, or nothing when the fetch raises
FetchLists == {Take(l, FetchLimit) : l \in SeqsUpTo({Post(sc) : sc \in Shortcodes}, MaxFetched)}

NoResultsWarning(location, cat) == Warn("No Instagram results for", location, cat)

\* the mutant: every fetched post is kept, seen or not
MergeStep_NoDedup(st, post, cat) ==
    [st EXCEPT !.seen = @ \cup {post.shortcode},
               !.all_posts = Append(@, [post EXCEPT !.post_category = cat])]

\* the body of "for post in fetched" in _search_sync
MergeStep(st, post, cat) ==
    IF post.shortcode \notin st.seen
    THEN [st EXCEPT !.seen = @ \cup {post.shortcode},
                    !.all_posts = Append(@, [post EXCEPT !.post_category = cat])]
    ELSE st

RECURSIVE MergeLoop(_, _, _)
MergeLoop(st, fetched, cat) ==
    IF fetched = <<>> THEN st
    ELSE MergeLoop(MergeStep(st, Head(fetched), cat), Tail(fetched), cat)

\* the locals of _search_sync before the category loop (cat, ti: the indexes of
\* the category and of the hashtag to fetch next; log: the hashtags fetched;
\* got: what each fetch returned)
SyncLocals(location) ==
    [pc |-> "fetch", location |-> location, cat |-> 1, ti |-> 1,
     seen |-> {}, all_posts |-> <<>>, warnings |-> <<>>, log |-> <<>>,
     got |-> <<>>, auth_ops |-> <<>>, result |-> None]

SyncIdle == [SyncLocals(<<>>) EXCEPT !.pc = "idle"]

\* leave the hashtag loop of category st.cat: the next category, or return
NextCategory(st) ==
    IF st.cat = Len(SyncCats)
    THEN [st EXCEPT !.pc = "done", !.cat = st.cat + 1, !.ti = 1,
                    !.result = [posts |-> st.all_posts, warnings |-> st.warnings]]
    ELSE [st EXCEPT !.cat = st.cat + 1, !.ti = 1]

\* the mutant: the break after a fetch with results left out
FetchStep_NoBreak(st, fetched) ==
    LET cat  == SyncCats[st.cat]
        tags == TagsTried(st.location, cat)
        st1  == [st EXCEPT !.log = Append(@, tags[st.ti]),
                           !.got = Append(@, [cat |-> cat, fetched |-> fetched])]
        st2  == MergeLoop(st1, fetched, cat)
    IN  IF st.ti < Len(tags)
        THEN [st2 EXCEPT !.ti = st.ti + 1]
        ELSE NextCategory([st2 EXCEPT
                 !.warnings = Append(@, NoResultsWarning(st.location, cat))])

\* one pass of the hashtag loop: _fetch_tag returned `fetched` for the current tag
FetchStep(st, fetched) ==
    LET cat  == SyncCats[st.cat]
        tags == TagsTried(st.location, cat)
        st1  == [st EXCEPT !.log = Append(@, tags[st.ti]),
                           !.got = Append(@, [cat |-> cat, fetched |-> fetched])]
    IN  IF fetched # <<>>
        THEN NextCategory(MergeLoop(st1, fetched, cat))
        ELSE IF st.ti < Len(tags)
        THEN [st1 EXCEPT !.ti = st.ti + 1]
        ELSE NextCategory([st1 EXCEPT
                 !.warnings = Append(@, NoResultsWarning(st.location, cat))])

\* _search_sync up to the category loop: login, or return the login error
LoginStep(location, logged, env, out) ==
    LET l == _ensure_login(logged, env, out)
    IN  IF l.err # NoErr
        THEN [SyncLocals(location) EXCEPT
                 !.pc = "done", !.auth_ops = l.ops,
                 !.result = [posts |-> <<>>, warnings |-> <<l.err>>]]
        ELSE [SyncLocals(location) EXCEPT !.auth_ops = l.ops]

RECURSIVE RunFetch(_, _)
RunFetch(st, world) ==
    \* the category loop of _search_sync, run to its end: world[cat][ti] is what
    \* _fetch_tag returns for hashtag ti of category cat
    IF st.pc = "done" THEN st
    ELSE RunFetch(FetchStep(st, world[st.cat][st.ti]), world)

\* one whole call of _search_sync: its return value and the new _logged_in
_search_sync(location, logged, env, out, world) ==
    [result    |-> RunFetch(LoginStep(location, logged, env, out), world).result,
     logged_in |-> _ensure_login(logged, env, out).logged_in]

(***************************************************************************)
(* SpecIg: one run of _search_sync after another, one fetch per step.      *)
(***************************************************************************)
Locations == {<<"T", "a">>, <<" ", "t", "a">>, <<"a">>}

\* the location _search_sync is called with in SpecIg
IgLocations == {<<"T", " ", "a">>}

\* the locals of _fetch_followee_posts_sync when no call is under way (k: the
\* index of the account the loop is at; log: the accounts examined)
FolIdle ==
    [pc |-> "idle", world |-> None, priority |-> <<>>, fallback |-> <<>>, k |-> 1,
     results |-> <<>>, log |-> <<>>, result |-> None]

IgIdle == sync = SyncIdle /\ fol = FolIdle

SyncCall ==
    /\ sync.pc = "idle"
    /\ \E location \in IgLocations, out \in LoginOutcomes :
          /\ sync' = LoginStep(location, logged_in, ig_env, out)
          /\ logged_in' = _ensure_login(logged_in, ig_env, out).logged_in
    /\ UNCHANGED <<fol, ig_env, mainVars, osmVars>>

SyncFetch ==
    /\ sync.pc = "fetch"
    /\ \E fetched \in FetchLists : sync' = FetchStep(sync, fetched)
    /\ UNCHANGED <<fol, loginVars, mainVars, osmVars>>

SyncReturn ==
    /\ sync.pc = "done"
    /\ sync' = SyncIdle
    /\ UNCHANGED <<fol, loginVars, mainVars, osmVars>>

NextIg == SyncCall \/ SyncFetch \/ SyncReturn

(***************************************************************************)
(* instagram.py: _fetch_followee_posts_sync.                                *)
(*                                                                         *)
(* What Instagram holds for one ig_username is a record                    *)
(*   [profile_ok, list_raises, followees]                                   *)
(* profile_ok: Profile.from_username succeeds; list_raises: get_followees  *)
(* raises after yielding the followees listed; a followee is               *)
(*   [is_private, mentions, posts_ok, posts]                                *)
(* mentions: its username or full name contains the location or its slug;  *)
(* posts_ok: get_posts succeeds; a post is [matches, shortcode, likes],    *)
(* matches: its location name or caption contains the location.            *)
(***************************************************************************)
FolloweeLimit == 50

PriorityScan == 24

FallbackScan == 12

MaxResults == 9

ErrUserNotFound == Warn("Instagram user not found", <<>>, "")

ErrNoFollowing == Warn("Could not load following list", <<>>, "")

RECURSIVE FirstMatchLoop(_, _)
FirstMatchLoop(posts, n) ==
    \* the loop "for _ in range(max_posts)" with n iterations left
    IF n = 0 \/ posts = <<>> THEN None
    ELSE IF Head(posts).matches
    THEN [shortcode |-> Head(posts).shortcode, likes |-> Head(posts).likes,
          post_category |-> "followee"]
    ELSE FirstMatchLoop(Tail(posts), n - 1)

_first_match(followee, max_posts) ==
    IF ~followee.posts_ok THEN None ELSE FirstMatchLoop(followee.posts, max_posts)

RECURSIVE CollectLoop(_, _, _)
CollectLoop(followees, results, max_posts) ==
    \* "for followee in priority" / "for followee in fallback"
    IF followees = <<>> \/ Len(results) >= MaxResults THEN results
    ELSE LET hit == _first_match(Head(followees), max_posts)
         IN  CollectLoop(Tail(followees),
                         IF hit # None THEN Append(results, hit) ELSE results,
                         max_posts)

\* pass 1: the public accounts among the first 50 followees, those whose name
\* mentions the location and the others
Listed(world) ==
    SelectSeq(Take(world.followees, FolloweeLimit), LAMBDA f : ~f.is_private)

PriorityOf(world) == SelectSeq(Listed(world), LAMBDA f : f.mentions)

FallbackOf(world) == SelectSeq(Listed(world), LAMBDA f : ~f.mentions)

_fetch_followee_posts_sync(location, logged, env, out, world) ==
    LET l        == _ensure_login(logged, env, out)
        priority == PriorityOf(world)
        fallback == FallbackOf(world)
        result   ==
            IF l.err # NoErr THEN [posts |-> <<>>, warnings |-> <<l.err>>]
            ELSE IF ~world.profile_ok
            THEN [posts |-> <<>>, warnings |-> <<ErrUserNotFound>>]
            ELSE IF world.list_raises /\ priority = <<>> /\ fallback = <<>>
            THEN [posts |-> <<>>, warnings |-> <<ErrNoFollowing>>]
            ELSE [posts |-> CollectLoop(fallback,
                                        CollectLoop(priority, <<>>, PriorityScan),
                                        FallbackScan),
                  warnings |-> <<>>]
    IN  [result |-> result, logged_in |-> l.logged_in]

(***************************************************************************)
(* SpecFol: one call of _fetch_followee_posts_sync after another, one      *)
(* account examined per step.                                              *)
(***************************************************************************)
RECURSIVE ScanCount(_, _)
ScanCount(posts, n) ==
    \* the posts the loop of _first_match takes from the iterator, with n
    \* iterations left, up to and including the one it returns
    IF n = 0 \/ posts = <<>> THEN 0
    ELSE IF Head(posts).matches THEN 1
    ELSE 1 + ScanCount(Tail(posts), n - 1)

RECURSIVE LoopHeads(_)
LoopHeads(st) ==
    \* the heads of the two loops of pass 2: the list has run out, or
    \* "if len(results) >= 9: break"; after the second loop, the return
    IF st.pc = "priority"
       /\ (st.k > Len(st.priority) \/ Len(st.results) >= MaxResults)
    THEN LoopHeads([st EXCEPT !.pc = "fallback", !.k = 1])
    ELSE IF st.pc = "fallback"
            /\ (st.k > Len(st.fallback) \/ Len(st.results) >= MaxResults)
    THEN [st EXCEPT !.pc = "done",
                    !.result = [posts |-> st.results, warnings |-> <<>>]]
    ELSE st

\* the body of the loop the call is in: the account at st.k is examined
ExamineStep(st) ==
    LET followee  == IF st.pc = "priority" THEN st.priority[st.k]
                     ELSE st.fallback[st.k]
        max_posts == IF st.pc = "priority" THEN PriorityScan ELSE FallbackScan
        hit       == _first_match(followee, max_posts)
    IN  LoopHeads([st EXCEPT
            !.k = st.k + 1,
            !.results = IF hit # None THEN Append(@, hit) ELSE @,
            !.log = Append(@, [account |-> followee.username, pass |-> st.pc,
                               scanned |-> IF followee.posts_ok
                                           THEN ScanCount(followee.posts, max_posts)
                                           ELSE 0,
                               hit |-> hit # None])])

\* _fetch_followee_posts_sync up to pass 2: login, profile, pass 1
FolloweeCallStep(logged, env, out, world) ==
    LET l    == _ensure_login(logged, env, out)
        st   == [FolIdle EXCEPT !.world = world]
        fail(w) == [st EXCEPT !.pc = "done",
                              !.result = [posts |-> <<>>, warnings |-> <<w>>]]
    IN  IF l.err # NoErr THEN fail(l.err)
        ELSE IF ~world.profile_ok THEN fail(ErrUserNotFound)
        ELSE IF world.list_raises /\ PriorityOf(world) = <<>> /\ FallbackOf(world) = <<>>
        THEN fail(ErrNoFollowing)
        ELSE LoopHeads([st EXCEPT !.pc = "priority",
                                  !.priority = PriorityOf(world),
                                  !.fallback = FallbackOf(world)])

MaxPosts == 25

\* an account of the following list: its first `n` posts, of which post
\* `first` (none when 0) is the only one that names the location
Account(id, private, mentions, first, n) ==
    [username |-> id, is_private |-> private, mentions |-> mentions,
     posts_ok |-> TRUE,
     posts |-> [j \in 1..n |->
                  [matches |-> j = first, shortcode |-> <<id, j>>, likes |-> j]]]

\* `count` public accounts whose newest post names the location
Matching(from, count, mentions) ==
    [j \in 1..count |-> Account(from + j, FALSE, mentions, 1, 1)]

BlockSizes == {0, 1, 9, 10}

ProbeFirsts == {0, 6, 7, 12, 13, 24, 25}

\* the following lists SpecFol meets: accounts that do not mention the
\* location, an account of every kind with its match at a chosen depth, then
\* accounts that mention the location; and the lists that cannot be read
FolWorlds ==
    {[profile_ok |-> TRUE, list_raises |-> FALSE,
      followees |-> Matching(100, b, FALSE)
                    \o <<Account(0, private, mentions, first, MaxPosts)>>
                    \o Matching(200, a, TRUE)] :
        a \in BlockSizes, b \in BlockSizes,
        private \in BOOLEAN, mentions \in BOOLEAN, first \in ProbeFirsts}
    \cup {[profile_ok |-> FALSE, list_raises |-> FALSE, followees |-> <<>>],
          [profile_ok |-> TRUE, list_raises |-> TRUE, followees |-> <<>>]}

FolCall ==
    /\ fol.pc = "idle"
    /\ \E world \in FolWorlds, out \in LoginOutcomes :
          /\ fol' = FolloweeCallStep(logged_in, ig_env, out, world)
          /\ logged_in' = _ensure_login(logged_in, ig_env, out).logged_in
    /\ UNCHANGED <<sync, ig_env, mainVars, osmVars>>

FolExamine ==
    /\ fol.pc \in {"priority", "fallback"}
    /\ fol' = ExamineStep(fol)
    /\ UNCHANGED <<sync, loginVars, mainVars, osmVars>>

FolReturn ==
    /\ fol.pc = "done"
    /\ fol' = FolIdle
    /\ UNCHANGED <<sync, loginVars, mainVars, osmVars>>

NextFol == FolCall \/ FolExamine \/ FolReturn

(***************************************************************************)
(* main.py: the sort of the posts, posts.sort(key=likes, reverse=True).    *)
(* list.sort is stable, also with reverse=True.                            *)
(***************************************************************************)
\* the mutant: the posts are left in the order of the adapter
SortByLikes_AsGiven(posts) == posts

RECURSIVE InsertByLikes(_, _)
InsertByLikes(p, sorted) ==
    \* p goes after every post with at least as many likes
    IF sorted = <<>> THEN <<p>>
    ELSE IF Head(sorted).likes >= p.likes
    THEN <<Head(sorted)>> \o InsertByLikes(p, Tail(sorted))
    ELSE <<p>> \o sorted

RECURSIVE SortLoop(_, _)
SortLoop(posts, sorted) ==
    IF posts = <<>> THEN sorted
    ELSE SortLoop(Tail(posts), InsertByLikes(Head(posts), sorted))

SortByLikes(posts) == SortLoop(posts, <<>>)

(***************************************************************************)
(* main.py and overpass.py: the endpoints.                                  *)
(*                                                                         *)
(* A request occupies a slot of req from its arrival to the moment its     *)
(* response has been sent and its tasks have ended.  Its handler runs on   *)
(* the event loop: the code between two awaits is one step.  A request has *)
(*   p  the frame of search_places                                          *)
(*   o  the coroutine search_osm it awaits under _with_timeout             *)
(*   g  its geo_task, _with_timeout(_geocode(location))                     *)
(*   i  the frame of search_instagram_endpoint / search_followees_endpoint *)
(* and the legacy endpoint search() gathers p and i.                        *)
(***************************************************************************)
_CACHE_TTL == 1800

MinLocationLen == 2

MinUsernameLen == 1

NumMirrors == 3

MaxRequests == 2

MaxTicks == 1

\* the connections requests arrive on: a connection carries one request at a
\* time, so that up to two requests are in flight
Req == {1, 2}

\* Spec: the requests of one connection, one after another
OneByOne == {1}

ValidCategories == {"all", "eat", "do", "sleep"}

CategoryInputs == {"all", "eat", "bogus"}

Usernames == {<<"p">>, <<>>}

\* the query strings a client can send to the endpoints `kinds` with the
\* locations `locs` and the categories `cats`: a parameter may be left out
QueryInputs(kinds, locs, cats) ==
    [kind : kinds \ {"followees"}, has_location : BOOLEAN,
     location : locs, has_category : BOOLEAN, category : cats,
     has_username : {FALSE}, ig_username : {<<>>}]
    \cup
    [kind : kinds \cap {"followees"}, has_location : BOOLEAN,
     location : locs, has_category : {FALSE}, category : {"all"},
     has_username : BOOLEAN, ig_username : Usernames]

\* Query("all", ...): the category a handler receives
CategoryOf(q) == IF q.has_category THEN q.category ELSE "all"

\* the mutant: the category pattern not enforced
Validate_AnyCategory(q) ==
    /\ q.has_location
    /\ Len(q.location) >= MinLocationLen
    /\ q.kind = "followees" =>
          q.has_username /\ Len(q.ig_username) >= MinUsernameLen

\* FastAPI's validation of the Query(...) parameters of the four endpoints
Validate(q) ==
    /\ q.has_location
    /\ Len(q.location) >= MinLocationLen
    /\ IF q.kind = "followees"
       THEN q.has_username /\ Len(q.ig_username) >= MinUsernameLen
       ELSE CategoryOf(q) \in ValidCategories

\* the cache keys
PlacesKey(location, category) == <<NormLoc(location), category>>

FolloweeKey(ig_username, location) == <<NormLoc(ig_username), NormLoc(location)>>

\* dict.get(key), and dict[key] = entry
CacheGet(cache, key) == IF key \in DOMAIN cache THEN cache[key] ELSE None

CachePut(cache, key, entry) ==
    [k \in DOMAIN cache \cup {key} |-> IF k = key THEN entry ELSE cache[k]]

EmptyCache == [k \in {} |-> None]

\* the mutant: the comparison of the age with the TTL turned round
IsFresh_Reversed(cached, t) == cached # None /\ t - cached.ts > _CACHE_TTL

\* the mutant: an entry is served up to and including the age _CACHE_TTL
IsFresh_Inclusive(cached, t) == cached # None /\ t - cached.ts <= _CACHE_TTL

\* "cached and time.time() - cached[0] < _CACHE_TTL"
IsFresh(cached, t) == cached # None /\ t - cached.ts < _CACHE_TTL

\* the frames of a request that has not started them
P0 == [pc |-> "none", hit |-> FALSE, resp |-> None]

O0 == [pc |-> "none", coords |-> NoCoords, result |-> None]

G0 == [pc |-> "none", result |-> NoCoords]

I0 == [pc |-> "none", hit |-> FALSE, timed_out |-> FALSE, fut |-> None, resp |-> <<>>]

NoCalls == [geocode |-> 0, overpass |-> 0, jobs |-> 0]

\* a connection with no request on it
ReqIdle ==
    [kind |-> "none",
     location |-> <<>>, category |-> "", ig_username |-> <<>>,
     status |-> 0, p |-> P0, o |-> O0, g |-> G0, i |-> I0,
     calls |-> NoCalls, resp |-> None]

\* what Nominatim answers for a location it knows
CoordsOf(location) ==
    IF NormLoc(location) = <<"t", "a">> THEN SomeCoords ELSE <<48, 2>>

\* the mutant: the cache is looked up under the location as given
GeocodeLookup_RawKey(cache, location) ==
    IF location \in DOMAIN cache
    THEN [hit |-> TRUE, coords |-> cache[location]]
    ELSE [hit |-> FALSE, coords |-> NoCoords]

\* _geocode up to its request: "if key in _geocode_cache: return _geocode_cache[key]"
GeocodeLookup(cache, location) ==
    IF NormLoc(location) \in DOMAIN cache
    THEN [hit |-> TRUE, coords |-> cache[NormLoc(location)]]
    ELSE [hit |-> FALSE, coords |-> NoCoords]

\* the mutant: the absent result is stored too
GeocodeReply_CachesAbsent(cache, location, ok) ==
    LET coords == IF ok THEN CoordsOf(location) ELSE NoCoords
    IN  [coords |-> coords, cache |-> CachePut(cache, NormLoc(location), coords)]

\* _geocode from the answer of Nominatim on: a result (ok), or a failed request
\* or an empty result set; the value returned and the new _geocode_cache
GeocodeReply(cache, location, ok) ==
    IF ok
    THEN [coords |-> CoordsOf(location),
          cache  |-> CachePut(cache, NormLoc(location), CoordsOf(location))]
    ELSE [coords |-> NoCoords, cache |-> cache]

\* the warnings of search_osm and of its timeout default
OsmTimedOut == Warn("OSM: request timed out", <<>>, "")

OsmNoGeocode(location) == Warn("OpenStreetMap: could not geocode", location, "")

OsmUnavailable == Warn("OpenStreetMap unavailable", <<>>, "")

OsmTuple(eat, do, sleep, warnings, coords) ==
    [eat |-> eat, do |-> do, sleep |-> sleep, warnings |-> warnings, coords |-> coords]

\* the mutant: a timeout default that carries no warning
OsmDefault_NoWarning == OsmTuple(<<>>, <<>>, <<>>, <<>>, NoCoords)

\* default=([], [], [], ["OSM: request timed out"], None)
OsmDefault == OsmTuple(<<>>, <<>>, <<>>, <<OsmTimedOut>>, NoCoords)

\* the return value of search_osm once a mirror has answered with `elements`
OsmSuccess(elements, coords) ==
    LET x == OsmPartition(elements, coords)
    IN  OsmTuple(x.eat, x.do, x.sleep, x.warnings, x.coords)

\* the Overpass answers the requests of Spec can receive
MainResponses ==
    {<<>>,
     <<Elem("theatre", "", "n1"), Elem("restaurant", "hotel", "n2"),
       Elem("", "hotel", "n1"), Elem("", "hotel", "n1")>>,
     <<BadElem>>}

\* what a mirror does when queried: it fails (transport error, status, body
\* that is not JSON), or answers with the elements
MirrorAnswers ==
    {[ok |-> FALSE, elements |-> <<>>]}
    \cup {[ok |-> TRUE, elements |-> e] : e \in MainResponses}

\* the runs of the mirrors the requests of Spec can meet: none answers (k = 0),
\* or mirror k is the one that does
MainMirrorRuns ==
    {[m \in 1..NumMirrors |->
         IF m = k THEN a ELSE [ok |-> FALSE, elements |-> <<>>]] :
     k \in 0..NumMirrors, a \in MirrorAnswers}

RECURSIVE MirrorLoop(_, _)
MirrorLoop(answers, m) ==
    \* "for mirror in _OVERPASS_MIRRORS" from mirror m on: whether a mirror
    \* answered, its elements, and the number of mirrors queried
    IF m > NumMirrors THEN [ok |-> FALSE, elements |-> <<>>, tried |-> NumMirrors]
    ELSE IF answers[m].ok
    THEN [ok |-> TRUE, elements |-> answers[m].elements, tried |-> m]
    ELSE MirrorLoop(answers, m + 1)

(***************************************************************************)
(* SpecOsmCall: one call of search_osm after another, one await per step.  *)
(***************************************************************************)
\* what a mirror does when queried here: it fails with an exception, or answers
StepAnswers ==
    {[ok |-> FALSE, exc |-> e, elements |-> <<>>] : e \in {"e1", "e2"}}
    \cup {[ok |-> TRUE, exc |-> "", elements |-> e] : e \in MainResponses}

\* f"OpenStreetMap unavailable: {last_exc}"
OsmUnavailableExc(exc) == [text |-> "OpenStreetMap unavailable", exc |-> exc]

\* the mutant: the mirrors are queried although _geocode returned None
AfterGeocode_QueriesAnyway(st, coords) == [st EXCEPT !.pc = "mirror", !.coords = coords]

\* search_osm resumes with the value of _geocode: "if not coords: return ..."
AfterGeocode(st, coords) ==
    IF coords = NoCoords
    THEN [st EXCEPT !.pc = "done",
                    !.result = OsmTuple(<<>>, <<>>, <<>>,
                                        <<OsmNoGeocode(st.location)>>, NoCoords)]
    ELSE [st EXCEPT !.pc = "mirror", !.coords = coords]

\* the mutant: the loop gives up before the last mirror
MirrorStep_GivesUpEarly(st, answer) ==
    LET st1 == [st EXCEPT !.log = Append(@, [mirror |-> st.m, answer |-> answer])]
    IN  IF answer.ok
        THEN [st1 EXCEPT !.pc = "done",
                         !.result = OsmSuccess(answer.elements, st.coords)]
        ELSE IF st.m < NumMirrors - 1
        THEN [st1 EXCEPT !.m = st.m + 1]
        ELSE [st1 EXCEPT !.pc = "done",
                         !.result = OsmTuple(<<>>, <<>>, <<>>,
                                             <<OsmUnavailableExc(answer.exc)>>,
                                             st.coords)]

\* one iteration of "for mirror in _OVERPASS_MIRRORS": mirror st.m was queried
\* and did `answer`; on a break, the rest of search_osm
MirrorStep(st, answer) ==
    LET st1 == [st EXCEPT !.log = Append(@, [mirror |-> st.m, answer |-> answer])]
    IN  IF answer.ok
        THEN [st1 EXCEPT !.pc = "done",
                         !.result = OsmSuccess(answer.elements, st.coords)]
        ELSE IF st.m < NumMirrors
        THEN [st1 EXCEPT !.m = st.m + 1]
        ELSE [st1 EXCEPT !.pc = "done",
                         !.result = OsmTuple(<<>>, <<>>, <<>>,
                                             <<OsmUnavailableExc(answer.exc)>>,
                                             st.coords)]

\* the locations search_osm is called with here: two spellings of one key, and
\* another key
OsmCallLocations == {<<"T", "a">>, <<" ", "t", "a">>, <<"p", "a">>}

\* search_osm is called: _geocode answers from the cache, or asks Nominatim
OsmCallStart ==
    /\ osm_call.pc = "idle"
    /\ \E location \in OsmCallLocations :
          LET st == [OsmCallIdle EXCEPT !.location = location]
              geo == GeocodeLookup(geocode_cache, location)
          IN  osm_call' = IF geo.hit
                          THEN AfterGeocode(st, geo.coords)
                          ELSE [st EXCEPT !.pc = "geocode"]
    /\ UNCHANGED <<osm_elements, osm_out, osm_first, mainVars, loginVars, igVars>>

\* Nominatim answers (ok), or fails or answers with no result
OsmCallGeocoded ==
    /\ osm_call.pc = "geocode"
    /\ \E ok \in BOOLEAN :
          LET reply == GeocodeReply(geocode_cache, osm_call.location, ok)
          IN  /\ geocode_cache' = reply.cache
              /\ osm_call' = AfterGeocode(osm_call, reply.coords)
    /\ UNCHANGED <<osm_elements, osm_out, osm_first, now, ticks, places_cache,
                   ig_cache, followee_cache, executor, req, served,
                   loginVars, igVars>>

\* the mirror the loop is at is queried
OsmCallMirror ==
    /\ osm_call.pc = "mirror"
    /\ \E answer \in StepAnswers : osm_call' = MirrorStep(osm_call, answer)
    /\ UNCHANGED <<osm_elements, osm_out, osm_first, mainVars, loginVars, igVars>>

OsmCallReturn ==
    /\ osm_call.pc = "done"
    /\ osm_call' = OsmCallIdle
    /\ UNCHANGED <<osm_elements, osm_out, osm_first, mainVars, loginVars, igVars>>

NextOsmCall == OsmCallStart \/ OsmCallGeocoded \/ OsmCallMirror \/ OsmCallReturn

\* PlacesResponse(...) as search_places builds it
PlacesResponse(location, category, osm, coords) ==
    [location |-> location, category |-> category,
     location_lat |-> IF coords # NoCoords THEN <<coords[1]>> ELSE <<>>,
     location_lon |-> IF coords # NoCoords THEN <<coords[2]>> ELSE <<>>,
     yelp_businesses |-> <<>>,
     osm_eat |-> osm.eat, osm_do |-> osm.do, osm_sleep |-> osm.sleep,
     warnings |-> osm.warnings]

\* SearchResponse(...) as search builds it
SearchResponse(location, category, places, ig_posts) ==
    [location |-> location, category |-> category,
     location_lat |-> places.location_lat, location_lon |-> places.location_lon,
     instagram_posts |-> ig_posts,
     yelp_businesses |-> places.yelp_businesses,
     osm_eat |-> places.osm_eat, osm_do |-> places.osm_do,
     osm_sleep |-> places.osm_sleep,
     warnings |-> places.warnings]

ValidationError == [detail |-> "validation error"]

\* the answers of Instagram the requests of Spec can receive
NoPosts == <<<<>>, <<>>, <<>>>>

MainIgWorlds ==
    {<<NoPosts, NoPosts, NoPosts>>,
     <<<<<<Post("s1"), Post("s2")>>, <<>>, <<>>>>,
       <<<<>>, <<Post("s2"), Post("s3")>>, <<>>>>,
       NoPosts>>}

FolloweePost(m, sc) == [matches |-> m, shortcode |-> sc, likes |-> Likes(sc)]

Followee(private, mentions, posts) ==
    [is_private |-> private, mentions |-> mentions, posts_ok |-> TRUE, posts |-> posts]

MainFolloweeWorlds ==
    {[profile_ok |-> TRUE, list_raises |-> FALSE, followees |-> <<>>],
     [profile_ok |-> TRUE, list_raises |-> FALSE,
      followees |-> <<Followee(FALSE, FALSE, <<FolloweePost(TRUE, "s1")>>),
                      Followee(FALSE, TRUE, <<FolloweePost(FALSE, "s3"),
                                              FolloweePost(TRUE, "s2")>>)>>]}

MainLoginOutcomes ==
    {[verify |-> "ok", login |-> "ok"], [verify |-> "raise", login |-> "raise"]}

MainEnv == [username |-> TRUE, session_file |-> TRUE, password |-> TRUE]

\* default=([], [])
IgDefault == [posts |-> <<>>, warnings |-> <<>>]

\* the response of a request whose handlers have all returned
Settle(rec) ==
    IF rec.status # 0 THEN rec
    ELSE IF rec.kind = "places" /\ rec.p.pc = "done"
    THEN [rec EXCEPT !.status = 200, !.resp = rec.p.resp]
    ELSE IF rec.kind \in {"instagram", "followees"} /\ rec.i.pc = "done"
    THEN [rec EXCEPT !.status = 200, !.resp = [posts |-> rec.i.resp]]
    ELSE IF rec.kind = "search" /\ rec.p.pc = "done" /\ rec.i.pc = "done"
    THEN [rec EXCEPT !.status = 200,
                     !.resp = SearchResponse(rec.location, rec.category,
                                             rec.p.resp, rec.i.resp)]
    ELSE rec

MainInit ==
    /\ now = 0
    /\ ticks = 0
    /\ places_cache = EmptyCache
    /\ ig_cache = EmptyCache
    /\ followee_cache = EmptyCache
    /\ geocode_cache = EmptyCache
    /\ executor = [queue |-> <<>>, running |-> <<>>]
    /\ req = [r \in Req |-> ReqIdle]
    /\ served = 0

\* the response of request r has been sent and its tasks have ended
Answered(r) == req[r].status # 0 /\ req[r].g.pc \in {"none", "done"}

\* nothing is left to clear away (an answered request leaves at once: what it
\* leaves behind is in the caches)
Quiet == \A r \in Req : ~Answered(r)

Leave(r) ==
    /\ Answered(r)
    /\ req' = [req EXCEPT ![r] = ReqIdle]
    /\ UNCHANGED <<now, ticks, places_cache, ig_cache, followee_cache,
                   geocode_cache, executor, served, loginVars, osmVars, igVars>>

\* the request q arrives on connection r: it is validated, and its handler is
\* scheduled
StartQuery(r, q) ==
    /\ Quiet
    /\ req[r].kind = "none"
    /\ served < MaxRequests
    /\ served' = served + 1
    /\    req' = [req EXCEPT ![r] =
              IF Validate(q)
              THEN [ReqIdle EXCEPT
                      !.kind = q.kind, !.location = q.location,
                      !.category = CategoryOf(q), !.ig_username = q.ig_username,
                      !.p.pc = IF q.kind \in {"places", "search"} THEN "enter" ELSE "none",
                      !.i.pc = IF q.kind \in {"instagram", "followees", "search"}
                               THEN "enter" ELSE "none"]
              ELSE [ReqIdle EXCEPT !.kind = q.kind, !.status = 422,
                                   !.resp = ValidationError]]
    /\ UNCHANGED <<now, ticks, places_cache, ig_cache, followee_cache,
                   geocode_cache, executor, loginVars, osmVars, igVars>>

\* one of the requests `queries` arrives on connection r
Start(r, queries) == \E q \in queries : StartQuery(r, q)

\* search_places up to its awaits: the cache check; on a miss geo_task and
\* search_osm each run _geocode up to its await: from the geocode cache, or a
\* request to Nominatim (search_osm goes on to query the first mirror when it
\* has coordinates)
PlacesEnter(r) ==
    /\ Quiet
    /\ req[r].p.pc = "enter"
    /\ LET cached == CacheGet(places_cache, PlacesKey(req[r].location, req[r].category))
           geo    == GeocodeLookup(geocode_cache, req[r].location)
       IN  req' = [req EXCEPT ![r] =
               IF IsFresh(cached, now)
               THEN Settle([@ EXCEPT !.p.pc = "done", !.p.hit = TRUE,
                                     !.p.resp = cached.val])
               ELSE IF geo.hit
               THEN [@ EXCEPT !.p.pc = "await_osm",
                              !.g.pc = "done", !.g.result = geo.coords,
                              !.o.pc = "mirror",
                              !.o.coords = geo.coords,
                              !.calls.overpass = @ + 1]
               ELSE [@ EXCEPT !.p.pc = "await_osm",
                              !.g.pc = "net", !.o.pc = "geocoding",
                              !.calls.geocode = @ + 2]]
    /\ UNCHANGED <<now, ticks, places_cache, ig_cache, followee_cache,
                   geocode_cache, executor, served, loginVars, osmVars, igVars>>

\* geo_task: Nominatim answers (ok), or fails or answers with no result
GeoTaskReply(r) ==
    /\ Quiet
    /\ req[r].g.pc = "net"
    /\ \E ok \in BOOLEAN :
          LET reply == GeocodeReply(geocode_cache, req[r].location, ok)
          IN  /\ geocode_cache' = reply.cache
              /\ req' = [req EXCEPT ![r].g.pc = "done", ![r].g.result = reply.coords]
    /\ UNCHANGED <<now, ticks, places_cache, ig_cache, followee_cache,
                   executor, served, loginVars, osmVars, igVars>>

\* geo_task: the 8 s of _with_timeout pass first
GeoTaskTimeout(r) ==
    /\ Quiet
    /\ req[r].g.pc = "net"
    /\ req' = [req EXCEPT ![r].g.pc = "done", ![r].g.result = NoCoords]
    /\ UNCHANGED <<now, ticks, places_cache, ig_cache, followee_cache,
                   geocode_cache, executor, served, loginVars, osmVars, igVars>>

\* search_osm: Nominatim answers; on coordinates the first mirror is queried
OsmGeocodeReply(r) ==
    /\ Quiet
    /\ req[r].o.pc = "geocoding"
    /\ \E ok \in BOOLEAN :
          LET reply == GeocodeReply(geocode_cache, req[r].location, ok)
          IN  /\ geocode_cache' = reply.cache
              /\ req' = IF reply.coords # NoCoords
                        THEN [req EXCEPT ![r].o.pc = "mirror",
                                         ![r].o.coords = reply.coords,
                                         ![r].calls.overpass = @ + 1]
                        ELSE [req EXCEPT
                                 ![r].o.pc = "done",
                                 ![r].o.result =
                                     OsmTuple(<<>>, <<>>, <<>>,
                                              <<OsmNoGeocode(req[r].location)>>,
                                              NoCoords)]
    /\ UNCHANGED <<now, ticks, places_cache, ig_cache, followee_cache,
                   executor, served, loginVars, osmVars, igVars>>

\* search_osm: the loop over _OVERPASS_MIRRORS, run to its end: answers[m] is
\* what mirror m does when queried; the first mirror has been queried already
OsmMirrorLoop(r) ==
    /\ Quiet
    /\ req[r].o.pc = "mirror"
    /\ \E answers \in MainMirrorRuns :
          LET loop == MirrorLoop(answers, 1)
          IN  req' = [req EXCEPT
                  ![r].o.pc = "done",
                  ![r].calls.overpass = @ + loop.tried - 1,
                  ![r].o.result =
                      IF loop.ok
                      THEN OsmSuccess(loop.elements, req[r].o.coords)
                      ELSE OsmTuple(<<>>, <<>>, <<>>, <<OsmUnavailable>>,
                                    req[r].o.coords)]
    /\ UNCHANGED <<now, ticks, places_cache, ig_cache, followee_cache,
                   geocode_cache, executor, served, loginVars, osmVars, igVars>>

\* the 22 s of _with_timeout pass while search_osm waits for the network
OsmTimeout(r) ==
    /\ Quiet
    /\ req[r].p.pc = "await_osm"
    /\ req[r].o.pc \in {"geocoding", "mirror"}
    /\ req' = [req EXCEPT ![r].o.pc = "cancelled", ![r].o.result = OsmDefault]
    /\ UNCHANGED <<now, ticks, places_cache, ig_cache, followee_cache,
                   geocode_cache, executor, served, loginVars, osmVars, igVars>>

\* the mutant: a result whose three buckets are empty is not stored
StorePlaces_SkipEmpty(cache, key, t, result) ==
    IF result.osm_eat = <<>> /\ result.osm_do = <<>> /\ result.osm_sleep = <<>>
    THEN cache
    ELSE CachePut(cache, key, [ts |-> t, val |-> result])

\* the mutant: an entry that is overwritten keeps its timestamp
StorePlaces_KeepsTs(cache, key, t, result) ==
    CachePut(cache, key,
             [ts |-> IF key \in DOMAIN cache THEN cache[key].ts ELSE t, val |-> result])

\* _places_cache[key] = (time.time(), result)
StorePlaces(cache, key, t, result) == CachePut(cache, key, [ts |-> t, val |-> result])

\* search_places from "result = PlacesResponse(" to its return
PlacesFinish(r, osm, coords) ==
    LET result == PlacesResponse(req[r].location, req[r].category, osm, coords)
    IN  /\ places_cache' = StorePlaces(places_cache,
                                       PlacesKey(req[r].location, req[r].category),
                                       now, result)
        /\ req' = [req EXCEPT ![r] =
               Settle([@ EXCEPT !.p.pc = "done", !.p.resp = result])]

\* the mutant: the coordinates of osm_result are used whatever they are
PlacesOsmReturned_OsmOnly(r) ==
    /\ Quiet
    /\ req[r].p.pc = "await_osm"
    /\ req[r].o.pc \in {"done", "cancelled"}
    /\ PlacesFinish(r, req[r].o.result, req[r].o.result.coords)
    /\ UNCHANGED <<now, ticks, ig_cache, followee_cache,
                   geocode_cache, executor, served, loginVars, osmVars, igVars>>

\* search_places resumes with osm_result: "coords = osm_coords or await geo_task"
PlacesOsmReturned(r) ==
    /\ Quiet
    /\ req[r].p.pc = "await_osm"
    /\ req[r].o.pc \in {"done", "cancelled"}
    /\ LET osm == req[r].o.result
       IN  IF osm.coords # NoCoords
           THEN PlacesFinish(r, osm, osm.coords)
           ELSE IF req[r].g.pc = "done"
           THEN PlacesFinish(r, osm, req[r].g.result)
           ELSE /\ req' = [req EXCEPT ![r].p.pc = "await_geo"]
                /\ UNCHANGED places_cache
    /\ UNCHANGED <<now, ticks, ig_cache, followee_cache,
                   geocode_cache, executor, served, loginVars, osmVars, igVars>>

\* search_places resumes with the result of geo_task
PlacesGeoReturned(r) ==
    /\ Quiet
    /\ req[r].p.pc = "await_geo"
    /\ req[r].g.pc = "done"
    /\ PlacesFinish(r, req[r].o.result, req[r].g.result)
    /\ UNCHANGED <<now, ticks, ig_cache, followee_cache,
                   geocode_cache, executor, served, loginVars, osmVars, igVars>>

\* the job an Instagram handler hands to _executor
Job(r) ==
    [owner |-> r,
     kind |-> IF req[r].kind = "followees" THEN "followees" ELSE "search",
     location |-> req[r].location, ig_username |-> req[r].ig_username]

IgKey(r) ==
    IF req[r].kind = "followees"
    THEN FolloweeKey(req[r].ig_username, req[r].location)
    ELSE PlacesKey(req[r].location, req[r].category)

\* the mutant: the Instagram handler looks in the places cache
IgCacheOf_Shared(r) == IF req[r].kind = "followees" THEN followee_cache ELSE places_cache

IgCacheOf(r) == IF req[r].kind = "followees" THEN followee_cache ELSE ig_cache

\* search_instagram_endpoint / search_followees_endpoint up to the await: the
\* cache check, then run_in_executor
IgEnter(r) ==
    /\ Quiet
    /\ req[r].i.pc = "enter"
    /\ LET cached == CacheGet(IgCacheOf(r), IgKey(r))
       IN  IF IsFresh(cached, now)
           THEN /\ req' = [req EXCEPT ![r] =
                       Settle([@ EXCEPT !.i.pc = "done", !.i.hit = TRUE,
                                        !.i.resp = cached.val])]
                /\ UNCHANGED executor
           ELSE /\ req' = [req EXCEPT ![r].i.pc = "await", ![r].calls.jobs = @ + 1]
                /\ executor' = [executor EXCEPT !.queue = Append(@, Job(r))]
    /\ UNCHANGED <<now, ticks, places_cache, ig_cache, followee_cache,
                   geocode_cache, served, loginVars, osmVars, igVars>>

\* ThreadPoolExecutor(max_workers=1)
MaxWorkers == 1

\* the mutant: a pool of two workers
WorkerFree_TwoWorkers(ex) == Len(ex.running) < 2

\* a worker thread of the pool is idle
WorkerFree(ex) == Len(ex.running) < MaxWorkers

\* an idle worker of _executor takes the next job
JobStart ==
    /\ Quiet
    /\ WorkerFree(executor)
    /\ executor.queue # <<>>
    /\ executor' = [queue   |-> Tail(executor.queue),
                    running |-> Append(executor.running, Head(executor.queue))]
    /\ UNCHANGED <<now, ticks, places_cache, ig_cache, followee_cache,
                   geocode_cache, req, served, loginVars, osmVars, igVars>>

\* what the running job returns
JobResult(job, out, world) ==
    IF job.kind = "followees"
    THEN _fetch_followee_posts_sync(job.location, logged_in, ig_env, out, world)
    ELSE _search_sync(job.location, logged_in, ig_env, out, world)

\* a running job returns; its future is set unless its awaiter has gone
JobFinish ==
    /\ Quiet
    /\ \E k \in 1..Len(executor.running), out \in MainLoginOutcomes :
       \E world \in IF executor.running[k].kind = "followees"
                    THEN MainFolloweeWorlds ELSE MainIgWorlds :
          LET job == executor.running[k]
              res == JobResult(job, out, world)
          IN  /\ logged_in' = res.logged_in
              /\ req' = IF job.owner = 0 THEN req
                        ELSE [req EXCEPT ![job.owner].i.pc = "ready",
                                         ![job.owner].i.fut = res.result]
              /\ executor' =
                    [executor EXCEPT
                        !.running = SubSeq(@, 1, k - 1) \o SubSeq(@, k + 1, Len(@))]
    /\ UNCHANGED <<now, ticks, places_cache, ig_cache, followee_cache,
                   geocode_cache, served, ig_env, osmVars, igVars>>

\* the mutant: the job of a request that timed out still reports to it
IgTimeout_JobStillReports(r) ==
    /\ Quiet
    /\ req[r].i.pc = "await"
    /\ req' = [req EXCEPT ![r].i.pc = "ready", ![r].i.timed_out = TRUE,
                          ![r].i.fut = IgDefault]
    /\ UNCHANGED <<now, ticks, places_cache, ig_cache, followee_cache, executor,
                   geocode_cache, served, loginVars, osmVars, igVars>>

\* the 25 s (35 s) of _with_timeout pass before the job has returned: the
\* default is substituted; a job still queued is cancelled, a running one is not
IgTimeout(r) ==
    /\ Quiet
    /\ req[r].i.pc = "await"
    /\ req' = [req EXCEPT ![r].i.pc = "ready", ![r].i.timed_out = TRUE,
                          ![r].i.fut = IgDefault]
    /\ executor' =
          [queue   |-> SelectSeq(executor.queue, LAMBDA j : j.owner # r),
           running |-> [k \in 1..Len(executor.running) |->
                          IF executor.running[k].owner = r
                          THEN [executor.running[k] EXCEPT !.owner = 0]
                          ELSE executor.running[k]]]
    /\ UNCHANGED <<now, ticks, places_cache, ig_cache, followee_cache,
                   geocode_cache, served, loginVars, osmVars, igVars>>

\* the mutant: the posts are stored whether or not there are any
StorePosts_Always(cache, key, t, posts) == CachePut(cache, key, [ts |-> t, val |-> posts])

\* "if posts: cache[key] = (time.time(), posts)"
StorePosts(cache, key, t, posts) ==
    IF posts # <<>> THEN CachePut(cache, key, [ts |-> t, val |-> posts]) ELSE cache

\* the Instagram handler resumes with (posts, _): sort, store, return
IgReturn(r) ==
    /\ Quiet
    /\ req[r].i.pc = "ready"
    /\ LET posts == SortByLikes(req[r].i.fut.posts)
       IN  /\ IF req[r].kind = "followees"
              THEN /\ followee_cache' = StorePosts(followee_cache, IgKey(r), now, posts)
                   /\ UNCHANGED ig_cache
              ELSE /\ ig_cache' = StorePosts(ig_cache, IgKey(r), now, posts)
                   /\ UNCHANGED followee_cache
           /\ req' = [req EXCEPT ![r] =
                  Settle([@ EXCEPT !.i.pc = "done", !.i.resp = posts])]
    /\ UNCHANGED <<now, ticks, places_cache,
                   geocode_cache, executor, served, loginVars, osmVars, igVars>>

\* time passes: a second less than the TTL, the TTL, or a second more
TickSteps == {_CACHE_TTL - 1, _CACHE_TTL, _CACHE_TTL + 1}

Tick ==
    /\ Quiet
    /\ ticks < MaxTicks
    /\ ticks' = ticks + 1
    /\ \E d \in TickSteps : now' = now + d
    /\ UNCHANGED <<places_cache, ig_cache, followee_cache,
                   geocode_cache, executor, req, served, loginVars, osmVars, igVars>>

Init ==
    /\ MainInit
    /\ logged_in = FALSE
    /\ ig_env = MainEnv
    /\ OsmIdle
    /\ IgIdle

\* the steps of the handlers and tasks of the request on connection r
Handler(r) ==
    \/ PlacesEnter(r)
    \/ GeoTaskReply(r)
    \/ GeoTaskTimeout(r)
    \/ OsmGeocodeReply(r)
    \/ OsmMirrorLoop(r)
    \/ OsmTimeout(r)
    \/ PlacesOsmReturned(r)
    \/ PlacesGeoReturned(r)
    \/ IgEnter(r)
    \/ IgTimeout(r)
    \/ IgReturn(r)
    \/ Leave(r)

EndpointKinds == {"places", "instagram", "followees"}

\* Spec: requests to the three endpoints of the frontend, one after another
Next ==
    \/ \E r \in OneByOne : Start(r, QueryInputs(EndpointKinds, Locations, CategoryInputs))
    \/ \E r \in OneByOne : Handler(r)
    \/ JobStart
    \/ JobFinish
    \/ Tick

\* SpecLegacy: requests to the legacy endpoint /api/search, one after another
LegacyLocations == {<<"T", "a">>, <<"a">>}

LegacyCategories == {"all", "bogus"}

NextLegacy ==
    \/ \E r \in OneByOne : Start(r, QueryInputs({"search"}, LegacyLocations, LegacyCategories))
    \/ \E r \in OneByOne : Handler(r)
    \/ JobStart
    \/ JobFinish
    \/ Tick

Spec == Init /\ [][Next]_vars

InitOsm ==
    /\ MainInit
    /\ logged_in = FALSE
    /\ ig_env = MainEnv
    /\ OsmInit
    /\ IgIdle

SpecLegacy == Init /\ [][NextLegacy]_vars

\* SpecJobs: requests to the two Instagram endpoints on two connections, so
\* that two of them are in flight together
JobLocations == {<<"T", "a">>}

JobKinds == {"instagram", "followees"}

NextJobs ==
    \/ \E r \in Req : Start(r, QueryInputs(JobKinds, JobLocations, {"all"}))
    \/ \E r \in Req : IgEnter(r)
    \/ \E r \in Req : IgTimeout(r)
    \/ \E r \in Req : IgReturn(r)
    \/ \E r \in Req : Leave(r)
    \/ JobStart
    \/ JobFinish

SpecJobs == Init /\ [][NextJobs]_vars

\* SpecRace: requests to the places, Instagram and followees endpoints on two
\* connections, for one location and category, while time passes
RaceKinds == {"places", "instagram", "followees"}

NextRace ==
    \/ \E r \in Req : Start(r, QueryInputs(RaceKinds, JobLocations, {"all"}))
    \/ \E r \in Req : Handler(r)
    \/ JobStart
    \/ JobFinish
    \/ Tick

SpecRace == Init /\ [][NextRace]_vars

SpecOsm == InitOsm /\ [][NextOsm]_vars

SpecOsmCall == Init /\ [][NextOsmCall]_vars

InitIg ==
    /\ MainInit
    /\ logged_in = FALSE
    /\ ig_env \in IgEnvs
    /\ OsmIdle
    /\ IgIdle

SpecIg == InitIg /\ [][NextIg]_vars

SpecFol == Init /\ [][NextFol]_vars

(***************************************************************************)
(* The properties.                                                         *)
(***************************************************************************)
\* the cache entry the handler of request r looks up
PlacesEntry(r) == CacheGet(places_cache, PlacesKey(req[r].location, req[r].category))

IgEntry(r) == CacheGet(IgCacheOf(r), IgKey(r))

\* the step in which the handler of request r makes its cache check
PlacesChecks(r) == req[r].p.pc = "enter" /\ req'[r].p.pc # "enter"

IgChecks(r) == req[r].i.pc = "enter" /\ req'[r].i.pc # "enter"

\* ... and returns the stored value
PlacesServed(r) ==
    /\ req'[r].p.pc = "done"
    /\ req'[r].p.hit
    /\ req'[r].p.resp = PlacesEntry(r).val

IgServed(r) ==
    /\ req'[r].i.pc = "done"
    /\ req'[r].i.hit
    /\ req'[r].i.resp = IgEntry(r).val

\* ... and goes to the upstream services
PlacesFetches(r) ==
    /\ req'[r].p.pc = "await_osm"
    /\ req'[r].calls.geocode + req'[r].calls.overpass
          > req[r].calls.geocode + req[r].calls.overpass

IgFetches(r) ==
    /\ req'[r].i.pc = "await"
    /\ req'[r].calls.jobs = req[r].calls.jobs + 1
    /\ Len(executor'.queue) = Len(executor.queue) + 1

\* C1: on each of the three endpoints, a request that finds an entry for its
\* key younger than the TTL returns exactly the stored value, and makes no
\* geocode request, no Overpass request and hands no job to the executor.
C1_CacheHitNoUpstream ==
    [][\A r \in Req :
        /\ (/\ PlacesChecks(r)
            /\ PlacesEntry(r) # None
            /\ now - PlacesEntry(r).ts < _CACHE_TTL)
           => /\ PlacesServed(r)
              /\ req'[r].calls = req[r].calls
              /\ req'[r].kind = "places" =>
                    req'[r].status = 200 /\ req'[r].resp = PlacesEntry(r).val
              /\ UNCHANGED <<executor, geocode_cache, places_cache>>
        /\ (/\ IgChecks(r)
            /\ IgEntry(r) # None
            /\ now - IgEntry(r).ts < _CACHE_TTL)
           => /\ IgServed(r)
              /\ req'[r].calls = req[r].calls
              /\ req'[r].kind \in {"instagram", "followees"} =>
                    /\ req'[r].status = 200
                    /\ req'[r].resp = [posts |-> IgEntry(r).val]
              /\ UNCHANGED <<executor, ig_cache, followee_cache, logged_in>>
      ]_vars

\* a request answered from an entry stored 1799 s earlier, with no upstream call
C1_Witness ==
    \E r \in Req :
        /\ req[r].status = 200
        /\ req[r].kind \in {"places", "followees"}
        /\ req[r].p.hit \/ req[r].i.hit
        /\ req[r].calls = NoCalls
        /\ now = _CACHE_TTL - 1

\* a failure result of search_osm: no place, and a warning
FailureResult(val) ==
    /\ val.osm_eat = <<>> /\ val.osm_do = <<>> /\ val.osm_sleep = <<>>
    /\ val.warnings # <<>>

\* C2: the places cache never holds a result born of a failure (Overpass timed
\* out, geocoding failed, all mirrors failed, parsing failed: three empty
\* buckets and a warning), so that the next request for the key fetches again.
C2_NoFailureCached ==
    \A k \in DOMAIN places_cache : ~FailureResult(places_cache[k].val)

\* C3: every entry of the Instagram cache and of the followee cache holds at
\* least one post, and a handler that resumes with no posts leaves both caches
\* as they are.
C3_PostsCachedNonEmpty ==
    /\ [](/\ \A k \in DOMAIN ig_cache : ig_cache[k].val # <<>>
          /\ \A k \in DOMAIN followee_cache : followee_cache[k].val # <<>>)
    /\ [][\A r \in Req :
            (req[r].i.pc = "ready" /\ req'[r].i.pc = "done"
                /\ req[r].i.fut.posts = <<>>)
            => UNCHANGED <<ig_cache, followee_cache>>]_vars

\* a request answered with no posts (its job timed out), and no entry for its key
C3_Witness ==
    \E r \in Req :
        /\ req[r].kind \in {"instagram", "followees"}
        /\ req[r].status = 200
        /\ req[r].i.timed_out
        /\ req[r].resp = [posts |-> <<>>]
        /\ IgKey(r) \notin DOMAIN IgCacheOf(r)

\* the sources of a legacy request that failed or timed out
OsmFailed(r) == ~req[r].p.hit /\ req[r].o.result # None /\ req[r].o.result.warnings # <<>>

IgFailed(r) ==
    /\ ~req[r].i.hit
    /\ req[r].i.fut # None
    /\ req[r].i.timed_out \/ req[r].i.fut.warnings \in {<<ErrLoginFailed>>}

\* C4: a legacy request whose map-data source and whose Instagram source both
\* failed or timed out is answered with status 200, every list empty, and one
\* warning for each of the two sources.
C4_OneWarningPerFailedSource ==
    \A r \in Req :
        (req[r].kind = "search" /\ req[r].status # 0 /\ OsmFailed(r) /\ IgFailed(r))
        => /\ req[r].status = 200
           /\ req[r].resp.instagram_posts = <<>>
           /\ req[r].resp.yelp_businesses = <<>>
           /\ req[r].resp.osm_eat = <<>>
           /\ req[r].resp.osm_do = <<>>
           /\ req[r].resp.osm_sleep = <<>>
           /\ Len(req[r].resp.warnings) = 2

\* the requests the claim C5 is about: a category outside the four, or a
\* location that is missing or too short
RejectedQuery(q) ==
    \/ q.kind # "followees" /\ CategoryOf(q) \notin {"all", "eat", "do", "sleep"}
    \/ ~q.has_location
    \/ Len(q.location) < MinLocationLen

\* C5: a request with a category outside {all, eat, do, sleep}, or with no
\* location or one shorter than the minimum, is answered 422 with no handler
\* frame started and no upstream call, and neither its arrival nor anything it
\* does afterwards changes a cache or the executor.
C5_InvalidRejectedFirst ==
    [][\A r \in Req :
        /\ (req[r].kind = "none" /\ req'[r].kind # "none")
              => \A q \in QueryInputs(EndpointKinds, Locations, CategoryInputs) :
                    (RejectedQuery(q) /\ StartQuery(r, q))
                    => /\ req'[r].status = 422
                       /\ req'[r].resp = ValidationError
                       /\ req'[r].p = P0 /\ req'[r].o = O0
                       /\ req'[r].g = G0 /\ req'[r].i = I0
                       /\ req'[r].calls = NoCalls
        /\ req[r].status = 422
              => /\ req'[r] = ReqIdle
                 /\ UNCHANGED <<places_cache, ig_cache, followee_cache,
                                geocode_cache, executor, logged_in>>
      ]_vars

\* a request rejected for its category while the places cache holds an entry
C5_Witness ==
    \E r \in Req :
        /\ req[r].status = 422
        /\ req[r].kind = "places"
        /\ req[r].calls = NoCalls
        /\ places_cache # EmptyCache

\* C6: a legacy request with category "all" for which Overpass gave places of
\* all three kinds, Instagram gave posts and the geocoder gave coordinates is
\* answered with every bucket non-empty (yelp_businesses too), no warning, and
\* the geocoder's coordinates.
C6_EveryBucketFilled ==
    \A r \in Req :
        (/\ req[r].kind = "search" /\ req[r].status = 200
         /\ req[r].category = "all"
         /\ ~req[r].p.hit /\ ~req[r].i.hit
         /\ req[r].o.result.eat # <<>> /\ req[r].o.result.do # <<>>
         /\ req[r].o.result.sleep # <<>>
         /\ req[r].o.result.coords # NoCoords
         /\ req[r].i.fut.posts # <<>>)
        => /\ req[r].resp.instagram_posts # <<>>
           /\ req[r].resp.osm_eat # <<>>
           /\ req[r].resp.osm_do # <<>>
           /\ req[r].resp.osm_sleep # <<>>
           /\ req[r].resp.yelp_businesses # <<>>
           /\ req[r].resp.warnings = <<>>
           /\ req[r].resp.location_lat = <<req[r].o.result.coords[1]>>
           /\ req[r].resp.location_lon = <<req[r].o.result.coords[2]>>

\* no shortcode twice in a list of posts
DistinctShortcodes(posts) ==
    \A i, j \in 1..Len(posts) : i # j => posts[i].shortcode # posts[j].shortcode

\* C7: in the list of posts of one run of _search_sync, while it is built and
\* when it is returned, no shortcode appears twice, whatever the hashtag
\* fetches of the three categories returned.
C7_ShortcodesUnique ==
    /\ DistinctShortcodes(sync.all_posts)
    /\ sync.result # None => DistinctShortcodes(sync.result.posts)

\* a run that returned posts, in which the fetches of two categories returned a
\* post with the same shortcode
C7_Witness ==
    /\ sync.pc = "done"
    /\ sync.result.posts # <<>>
    /\ \E i, j \in 1..Len(sync.got) :
          /\ sync.got[i].cat # sync.got[j].cat
          /\ \E a \in 1..Len(sync.got[i].fetched), b \in 1..Len(sync.got[j].fetched) :
                sync.got[i].fetched[a].shortcode = sync.got[j].fetched[b].shortcode

\* the raw lists of `raw` that hold the element el
BucketsOf(raw, el) == {b \in {"eat", "sleep", "do"} : el \in Range(raw[b])}

\* every element is in exactly one raw list, as many times as in the response
TotalExclusive(elements, raw) ==
    \A el \in Range(elements) :
        /\ Cardinality(BucketsOf(raw, el)) = 1
        /\ Count(el, raw.eat) + Count(el, raw.sleep) + Count(el, raw.do)
              = Count(el, elements)

\* the list of an element does not depend on the order of the response
OrderIndependent ==
    (osm_first # None /\ osm_first.out.raw # None)
    => \A el \in Range(osm_elements) :
          BucketsOf(osm_out.raw, el) = BucketsOf(osm_first.out.raw, el)

C9_FreshBelowTTL ==
    [][\A r \in Req :
        /\ (PlacesChecks(r) /\ PlacesEntry(r) # None)
           => IF now - PlacesEntry(r).ts < _CACHE_TTL
              THEN PlacesServed(r) ELSE PlacesFetches(r)
        /\ (IgChecks(r) /\ IgEntry(r) # None)
           => IF now - IgEntry(r).ts < _CACHE_TTL
              THEN IgServed(r) ELSE IgFetches(r)
      ]_vars

\* a places request that fetches although an entry of age exactly 1800 s exists
C9_Witness ==
    \E r \in Req :
        /\ req[r].p.pc = "await_osm"
        /\ PlacesEntry(r) # None
        /\ now - PlacesEntry(r).ts = _CACHE_TTL

\* C9 as stated: served while the age is at most 1800 s, absent only beyond
C9_AsStated ==
    [][\A r \in Req :
        /\ (PlacesChecks(r) /\ PlacesEntry(r) # None)
           => IF now - PlacesEntry(r).ts <= _CACHE_TTL
              THEN PlacesServed(r) ELSE PlacesFetches(r)
        /\ (IgChecks(r) /\ IgEntry(r) # None)
           => IF now - IgEntry(r).ts <= _CACHE_TTL
              THEN IgServed(r) ELSE IgFetches(r)
      ]_vars

\* C10: the location of a places response is the location string of the
\* request it answers, also when it is served from the entry of an earlier
\* request with the same key.
C10_LocationAsGiven ==
    \A r \in Req :
        (req[r].kind = "places" /\ req[r].status = 200)
        => req[r].resp.location = req[r].location

\* C11: a legacy request with category "all" for which every adapter returned
\* nothing is answered 200 with a body that echoes the caller's location and
\* category and has the fields instagram_posts, yelp_businesses,
\* osm_restaurants, osm_activities and warnings.
C11_LegacyBodyFields ==
    \A r \in Req :
        (/\ req[r].kind = "search" /\ req[r].status # 0
         /\ req[r].category = "all"
         /\ ~req[r].p.hit /\ ~req[r].i.hit
         /\ req[r].o.result.eat = <<>> /\ req[r].o.result.do = <<>>
         /\ req[r].o.result.sleep = <<>>
         /\ req[r].i.fut.posts = <<>>)
        => /\ req[r].status = 200
           /\ req[r].resp.location = req[r].location
           /\ req[r].resp.category = req[r].category
           /\ {"instagram_posts", "yelp_businesses", "osm_restaurants",
               "osm_activities", "warnings"} \subseteq DOMAIN req[r].resp

\* the outcome of a finished call of search_osm, as its log tells it
OsmCallDone == osm_call.pc = "done"

GeocodeAbsent == OsmCallDone /\ osm_call.coords = NoCoords

AllMirrorsFailed ==
    /\ OsmCallDone
    /\ osm_call.log # <<>>
    /\ \A i \in 1..Len(osm_call.log) : ~osm_call.log[i].answer.ok

MirrorAnswered ==
    /\ OsmCallDone
    /\ osm_call.log # <<>>
    /\ osm_call.log[Len(osm_call.log)].answer.ok

EmptyBuckets(res) == res.eat = <<>> /\ res.do = <<>> /\ res.sleep = <<>>

\* C12: every call of search_osm returns its five-part value; when geocoding
\* gave nothing, when every mirror failed and when parsing failed it holds
\* three empty buckets and exactly one warning; on success it holds no
\* warning; and when geocoding gave nothing no mirror was queried.
C12_OsmFailuresBecomeWarnings ==
    OsmCallDone =>
       /\ osm_call.result # None
       /\ DOMAIN osm_call.result = {"eat", "do", "sleep", "warnings", "coords"}
       /\ GeocodeAbsent =>
             /\ osm_call.log = <<>>
             /\ EmptyBuckets(osm_call.result)
             /\ Len(osm_call.result.warnings) = 1
       /\ AllMirrorsFailed =>
             /\ EmptyBuckets(osm_call.result)
             /\ Len(osm_call.result.warnings) = 1
       /\ MirrorAnswered =>
             IF ParseRaises(osm_call.log[Len(osm_call.log)].answer.elements)
             THEN /\ EmptyBuckets(osm_call.result)
                  /\ Len(osm_call.result.warnings) = 1
             ELSE osm_call.result.warnings = <<>>
       /\ GeocodeAbsent \/ AllMirrorsFailed \/ MirrorAnswered

\* a call for which geocoding gave nothing, returned with its one warning
\* while the geocode cache holds the coordinates of another location
C12_Witness ==
    /\ GeocodeAbsent
    /\ osm_call.log = <<>>
    /\ Len(osm_call.result.warnings) = 1
    /\ geocode_cache # EmptyCache

\* C17: mirror i is queried only after mirrors 1..i-1 have failed in the same
\* call, none is queried after one has answered, and when all have failed the
\* call returns three empty buckets, exactly one warning that carries the
\* failure of the last mirror, and the coordinates geocoding gave.
C17_MirrorFailover ==
    /\ \A i \in 1..Len(osm_call.log) :
          /\ osm_call.log[i].mirror = i
          /\ i < Len(osm_call.log) => ~osm_call.log[i].answer.ok
    /\ Len(osm_call.log) <= NumMirrors
    /\ osm_call.pc = "mirror" =>
          /\ Len(osm_call.log) < NumMirrors
          /\ \A i \in 1..Len(osm_call.log) : ~osm_call.log[i].answer.ok
    /\ AllMirrorsFailed =>
          /\ Len(osm_call.log) = NumMirrors
          /\ EmptyBuckets(osm_call.result)
          /\ osm_call.result.warnings =
                <<OsmUnavailableExc(osm_call.log[NumMirrors].answer.exc)>>
          /\ osm_call.result.coords = osm_call.coords
          /\ osm_call.coords # NoCoords

\* the first two mirrors failed differently from the last one, which failed too
C17_Witness ==
    /\ AllMirrorsFailed
    /\ Len(osm_call.log) = NumMirrors
    /\ osm_call.log[1].answer.exc # osm_call.log[NumMirrors].answer.exc
    /\ osm_call.result.coords # NoCoords

\* C13: when the deadline of an adapter call passes, its typed default is
\* substituted (map data: three empty buckets, the one timeout warning, no
\* coordinates; Instagram and followees: no posts, no warnings), and the
\* request is answered 200 with a well-formed response built from it.
C13_TimeoutDefaults ==
    \A r \in Req :
        /\ req[r].o.pc = "cancelled" =>
              req[r].o.result =
                 [eat |-> <<>>, do |-> <<>>, sleep |-> <<>>,
                  warnings |-> <<Warn("OSM: request timed out", <<>>, "")>>,
                  coords |-> <<>>]
        /\ req[r].i.timed_out => req[r].i.fut = [posts |-> <<>>, warnings |-> <<>>]
        /\ (req[r].kind = "places" /\ req[r].status # 0 /\ req[r].o.pc = "cancelled")
           => /\ req[r].status = 200
              /\ DOMAIN req[r].resp =
                    {"location", "category", "location_lat", "location_lon",
                     "yelp_businesses", "osm_eat", "osm_do", "osm_sleep", "warnings"}
              /\ req[r].resp.osm_eat = <<>>
              /\ req[r].resp.osm_do = <<>>
              /\ req[r].resp.osm_sleep = <<>>
              /\ req[r].resp.warnings = <<Warn("OSM: request timed out", <<>>, "")>>
              /\ req[r].resp.location_lat =
                    IF req[r].g.result = <<>> THEN <<>> ELSE <<req[r].g.result[1]>>
              /\ req[r].resp.location_lon =
                    IF req[r].g.result = <<>> THEN <<>> ELSE <<req[r].g.result[2]>>
        /\ (req[r].kind \in {"instagram", "followees"} /\ req[r].status # 0
               /\ req[r].i.timed_out)
           => /\ req[r].status = 200
              /\ req[r].resp = [posts |-> <<>>]

\* a places request answered after search_osm timed out, with the coordinates
\* its geo_task obtained
C13_Witness ==
    \E r \in Req :
        /\ req[r].kind = "places"
        /\ req[r].status = 200
        /\ req[r].o.pc = "cancelled"
        /\ req[r].g.result # <<>>
        /\ req[r].resp.location_lat # <<>>

\* the calls on the loader that go to the network
NetworkOps == {"test_login", "login"}

\* C14: a call of the Instagram adapter that cannot log in because the
\* username or the password is absent from the configuration returns no
\* posts and a single warning about the missing credential, without a network
\* call (no session verification, no login, no hashtag fetch).
C14_MissingCredentialNoNetwork ==
    (sync.pc = "done" /\ ~logged_in /\ (~ig_env.username \/ ~ig_env.password))
    => /\ sync.result.posts = <<>>
       /\ Len(sync.result.warnings) = 1
       /\ sync.result.warnings[1] \in {ErrNoUsername, ErrNoSession}
       /\ Range(sync.auth_ops) \cap NetworkOps = {}
       /\ sync.log = <<>>

\* the jobs of request r that the executor holds
JobsOf(r) ==
    Len(SelectSeq(executor.queue, LAMBDA j : j.owner = r))
    + Len(SelectSeq(executor.running, LAMBDA j : j.owner = r))

\* C15: at most one Instagram job is executing at any time; a call made while
\* a job is executing is accepted and put at the end of the queue; a job
\* starts only when none is executing, and it is the first of the queue; and
\* every request that waits for its job has that job queued or executing.
C15_OneJobAtATime ==
    /\ [](/\ Len(executor.running) <= 1
          /\ \A r \in Req : req[r].i.pc = "await" => JobsOf(r) = 1)
    /\ [][/\ \A r \in Req :
               (IgChecks(r) /\ req'[r].i.pc = "await")
               => /\ executor'.queue = Append(executor.queue, Job(r))
                  /\ executor'.running = executor.running
          /\ Len(executor'.running) > Len(executor.running)
               => /\ executor.running = <<>>
                  /\ executor.queue # <<>>
                  /\ executor'.running = <<Head(executor.queue)>>
                  /\ executor'.queue = Tail(executor.queue)
         ]_vars

\* the job of one request waits in the queue while the job of another executes
C15_Witness ==
    /\ Len(executor.running) = 1
    /\ Len(executor.queue) = 1
    /\ executor.running[1].owner # 0
    /\ executor.queue[1].owner # 0
    /\ executor.queue[1].owner # executor.running[1].owner

\* C16: the warnings of a legacy response are the warnings of the map-data
\* source followed by the warnings of the Instagram source: none is dropped.
C16_WarningsOfEverySource ==
    \A r \in Req :
        (/\ req[r].kind = "search" /\ req[r].status = 200
         /\ ~req[r].p.hit /\ ~req[r].i.hit)
        => req[r].resp.warnings = req[r].o.result.warnings \o req[r].i.fut.warnings

\* the fetches of category c, in the order they were made
FetchesOf(c) == SelectSeq(sync.got, LAMBDA f : f.cat = c)

\* the number of the fetches 1..i that were made for the category of fetch i
RankOf(i) == Len(SelectSeq(SubSeq(sync.got, 1, i), LAMBDA f : f.cat = sync.got[i].cat))

\* category c has been passed: all its candidates tried, or one gave posts
PassOver(c) ==
    \/ sync.pc = "done"
    \/ \E k \in 1..Len(SyncCats) : SyncCats[k] = c /\ k < sync.cat

\* every candidate of category c was fetched and gave nothing
Exhausted(c) ==
    /\ Len(FetchesOf(c)) = Len(TagsTried(sync.location, c))
    /\ \A k \in 1..Len(FetchesOf(c)) : FetchesOf(c)[k].fetched = <<>>

RECURSIVE ExpectedWarnings(_)
ExpectedWarnings(cats) ==
    IF cats = <<>> THEN <<>>
    ELSE (IF PassOver(Head(cats)) /\ Exhausted(Head(cats))
          THEN <<NoResultsWarning(sync.location, Head(cats))>> ELSE <<>>)
         \o ExpectedWarnings(Tail(cats))

\* C18: in each category pass the first three hashtags of the category are
\* fetched one after another in their order; a hashtag is fetched only when
\* the one before it gave no post, none is fetched after one gave posts, and
\* the warning naming the location and the category is there exactly when all
\* hashtags of the category were fetched and each gave no post.
C18_HashtagFallback ==
    /\ Len(sync.log) = Len(sync.got)
    /\ \A i \in 1..Len(sync.got) :
          LET c == sync.got[i].cat
              k == RankOf(i)
          IN  /\ k <= TagsPerCategory
              /\ sync.log[i] = _hashtags_for(sync.location, c)[k]
              /\ k > 1 => /\ sync.got[i - 1].cat = c
                          /\ sync.got[i - 1].fetched = <<>>
              /\ (i < Len(sync.got) /\ sync.got[i].fetched # <<>>)
                    => sync.got[i + 1].cat # c
              /\ \A j \in 1..i : \E a, b \in 1..Len(SyncCats) :
                    a <= b /\ SyncCats[a] = sync.got[j].cat /\ SyncCats[b] = c
    /\ sync.pc \in {"fetch", "done"} /\ (sync.pc = "done" => sync.log # <<>>)
          => sync.warnings = ExpectedWarnings(SyncCats)
    /\ (sync.pc = "done" /\ sync.log # <<>>)
          => sync.result.warnings = ExpectedWarnings(SyncCats)

\* a run in which the third hashtag of "eat" gave posts after two gave none,
\* and all three hashtags of "do" gave none
C18_Witness ==
    /\ sync.pc = "done"
    /\ Len(FetchesOf("eat")) = TagsPerCategory
    /\ FetchesOf("eat")[TagsPerCategory].fetched # <<>>
    /\ Exhausted("do")
    /\ NoResultsWarning(sync.location, "do") \in Range(sync.result.warnings)
    /\ NoResultsWarning(sync.location, "eat") \notin Range(sync.result.warnings)

\* a call of _search_sync starts: _ensure_login has run
SyncCalled == sync.pc = "idle" /\ sync'.pc # "idle"

\* C19: once _logged_in is true it stays true, and a call that finds it true
\* neither loads nor verifies a session nor logs in; a call that finds it
\* false sets it exactly when it logs in, and leaves it false when it fails.
C19_LoginMemoized ==
    [][/\ logged_in => logged_in'
       /\ ~SyncCalled => logged_in' = logged_in
       /\ (SyncCalled /\ logged_in)
             => sync'.auth_ops = <<>> /\ sync'.pc = "fetch"
       /\ (SyncCalled /\ ~logged_in)
             => /\ sync'.auth_ops # <<>> \/ ~ig_env.username
                /\ logged_in' <=> sync'.pc = "fetch"
                /\ sync'.pc = "done" =>
                      sync'.result.posts = <<>> /\ Len(sync'.result.warnings) = 1
      ]_vars

\* a later call, made when logged in: it goes to the fetches with no call on
\* the loader
C19_Witness ==
    /\ logged_in
    /\ sync.pc = "fetch"
    /\ sync.auth_ops = <<>>

\* _geocode returns coordinates it asked Nominatim for, to geo_task or search_osm
GeocodeSucceeds(r, coords) ==
    \/ /\ req[r].g.pc = "net" /\ req'[r].g.pc = "done"
       /\ req'[r].g.result = coords
    \/ /\ req[r].o.pc = "geocoding" /\ req'[r].o.pc = "mirror"
       /\ req'[r].o.coords = coords

\* _geocode returns None after asking Nominatim
GeocodeFails(r) ==
    \/ /\ req[r].g.pc = "net" /\ req'[r].g.pc = "done"
       /\ req'[r].g.result = <<>>
    \/ /\ req[r].o.pc = "geocoding" /\ req'[r].o.pc = "done"

\* C20: a geocoding request that fails or gives no result returns None and
\* leaves the geocode cache as it is; the cache changes only when a request
\* succeeds, by the coordinates it returned under the normalized location, so
\* that it never holds an absent value.
C20_GeocodeCacheOnlySuccess ==
    /\ [](\A k \in DOMAIN geocode_cache :
             /\ geocode_cache[k] # <<>>
             /\ Len(geocode_cache[k]) = 2
             /\ k = StrStrip(StrLower(k)))
    /\ [][/\ \A r \in Req :
               GeocodeFails(r)
               => /\ UNCHANGED geocode_cache
                  /\ (req[r].o.pc = "geocoding" /\ req'[r].o.pc = "done")
                        => req'[r].o.result.coords = <<>>
          /\ geocode_cache' # geocode_cache
               => \E r \in Req, coords \in {geocode_cache'[k] : k \in DOMAIN geocode_cache'} :
                     /\ coords # <<>>
                     /\ GeocodeSucceeds(r, coords)
                     /\ geocode_cache' =
                           CachePut(geocode_cache,
                                    StrStrip(StrLower(req[r].location)), coords)
         ]_vars

\* a request both of whose geocoding requests failed, after which the cache has
\* no entry for its location
C20_Witness ==
    \E r \in Req :
        /\ req[r].g.pc = "done" /\ req[r].g.result = <<>>
        /\ req[r].o.pc = "done" /\ req[r].o.result.coords = <<>>
        /\ req[r].calls.geocode = 2
        /\ StrStrip(StrLower(req[r].location)) \notin DOMAIN geocode_cache

\* C21: a key of the geocode cache is never removed, however much time passes,
\* and a places request that goes to the geocoder for a location whose
\* lowercased, trimmed form is a key of the cache gets the cached coordinates,
\* in its geo_task and in search_osm, with no geocoding request made.
C21_GeocodeCacheForever ==
    [][/\ DOMAIN geocode_cache \subseteq DOMAIN geocode_cache'
       /\ \A r \in Req :
             (/\ PlacesChecks(r)
              /\ req'[r].p.pc = "await_osm"
              /\ StrStrip(StrLower(req[r].location)) \in DOMAIN geocode_cache)
             => LET coords == geocode_cache[StrStrip(StrLower(req[r].location))]
                IN  /\ req'[r].calls.geocode = req[r].calls.geocode
                    /\ req'[r].g.pc = "done" /\ req'[r].g.result = coords
                    /\ req'[r].o.pc = "mirror" /\ req'[r].o.coords = coords
                    /\ UNCHANGED geocode_cache
      ]_vars

\* a places request made more than 1800 s after the one that filled both
\* caches: its places entry is stale, its coordinates come from the geocode
\* cache and it has made no geocoding request
C21_Witness ==
    \E r \in Req :
        /\ req[r].p.pc = "await_osm"
        /\ PlacesEntry(r) # None
        /\ now - PlacesEntry(r).ts > _CACHE_TTL
        /\ req[r].calls.geocode = 0
        /\ req[r].g.pc = "done"
        /\ req[r].g.result # <<>>
        /\ req[r].g.result = geocode_cache[StrStrip(StrLower(req[r].location))]

\* the coordinates a places response carries
CoordsIn(resp) ==
    IF resp.location_lat = <<>> \/ resp.location_lon = <<>> THEN <<>>
    ELSE <<resp.location_lat[1], resp.location_lon[1]>>

\* C22: a places request starts its geo_task in the step in which it starts
\* search_osm, before either can have finished, so that the two run together;
\* and when search_osm timed out or returned no coordinates, the response
\* carries what geo_task returned.
C22_GeoTaskRunsBeside ==
    /\ [](\A r \in Req :
             /\ req[r].o.pc # "none" => req[r].g.pc # "none"
             /\ (/\ req[r].p.pc = "done" /\ ~req[r].p.hit
                 /\ req[r].o.result.coords = <<>>)
                => /\ req[r].g.pc = "done"
                   /\ CoordsIn(req[r].p.resp) = req[r].g.result)
    /\ [][\A r \in Req :
             (req[r].g.pc = "none" /\ req'[r].g.pc # "none")
             => /\ req[r].p.pc = "enter"
                /\ req[r].o.pc = "none"
                /\ req'[r].o.pc \in {"geocoding", "mirror"}
                /\ req'[r].p.pc = "await_osm"
          ]_vars

\* a places request answered with the coordinates of its geo_task although
\* search_osm returned without any (its own geocoding request failed)
C22_Witness ==
    \E r \in Req :
        /\ req[r].kind = "places"
        /\ req[r].status = 200
        /\ req[r].o.pc = "done"
        /\ req[r].o.result.coords = <<>>
        /\ req[r].g.result # <<>>
        /\ CoordsIn(req[r].resp) = req[r].g.result

\* C23: a places request makes at most one geocoding request for its
\* location, also when the geocode cache does not hold it: geo_task does not
\* add a second request to the one search_osm makes.
C23_OneGeocodeRequest ==
    \A r \in Req : req[r].kind = "places" => req[r].calls.geocode <= 1

\* the fields of a PlacesResponse
PlacesFields ==
    {"location", "category", "location_lat", "location_lon", "yelp_businesses",
     "osm_eat", "osm_do", "osm_sleep", "warnings"}

\* request r, which missed the cache, writes its whole entry in this step
PlacesWrites(r) ==
    /\ req[r].p.pc \in {"await_osm", "await_geo"}
    /\ req'[r].p.pc = "done"
    /\ ~req'[r].p.hit
    /\ DOMAIN req'[r].p.resp = PlacesFields
    /\ places_cache' =
          CachePut(places_cache,
                   <<StrStrip(StrLower(req[r].location)), req[r].category>>,
                   [ts |-> now, val |-> req'[r].p.resp])

IgWrites(r) ==
    /\ req[r].i.pc = "ready"
    /\ req'[r].i.pc = "done"
    /\ ~req'[r].i.hit
    /\ ig_cache' =
          CachePut(ig_cache,
                   <<StrStrip(StrLower(req[r].location)), req[r].category>>,
                   [ts |-> now, val |-> req'[r].i.resp])

\* C24: with two requests for one key in flight together, both having missed
\* the cache, every entry of the places cache and of the Instagram cache is a
\* whole (timestamp, value) pair, and a cache changes only in a step in which
\* one request stores the pair of its own clock reading and its own response
\* under its key, over whatever was there; no other request moves in that step.
C24_WholeEntryLastWriter ==
    /\ [](/\ \A k \in DOMAIN places_cache :
                /\ DOMAIN places_cache[k] = {"ts", "val"}
                /\ DOMAIN places_cache[k].val = PlacesFields
                /\ places_cache[k].ts <= now
          /\ \A k \in DOMAIN ig_cache :
                /\ DOMAIN ig_cache[k] = {"ts", "val"}
                /\ ig_cache[k].ts <= now)
    /\ [][/\ places_cache' # places_cache
               => \E r \in Req :
                     /\ PlacesWrites(r)
                     /\ \A r2 \in Req \ {r} : req'[r2] = req[r2]
          /\ ig_cache' # ig_cache
               => \E r \in Req :
                     /\ IgWrites(r)
                     /\ \A r2 \in Req \ {r} : req'[r2] = req[r2]
         ]_vars

\* a places request that missed the cache and is still fetching, while the
\* entry of its key is fresh and differs from what was there at its check:
\* another request for the key missed too, fetched and stored in between
C24_Witness ==
    \E r \in Req :
        /\ req[r].kind = "places"
        /\ req[r].p.pc \in {"await_osm", "await_geo"}
        /\ req[r].calls.overpass > 0
        /\ PlacesEntry(r) # None
        /\ now - PlacesEntry(r).ts < _CACHE_TTL
        /\ now > 0

\* like counts never go up along the list
NonIncreasingLikes(posts) ==
    \A i \in 1..(Len(posts) - 1) : posts[i].likes >= posts[i + 1].likes

\* the same posts, each as many times, in some order
IsPermutation(a, b) ==
    /\ Len(a) = Len(b)
    /\ \A x \in Range(a) \cup Range(b) : Count(x, a) = Count(x, b)

\* C25: the posts the Instagram endpoint and the followees endpoint return are
\* in non-increasing order of like count and are the posts the adapter
\* returned, each once; every list in the Instagram cache and in the followee
\* cache is in that order, and so is a response served from them.
C25_PostsSortedByLikes ==
    /\ \A r \in Req :
          /\ req[r].i.pc = "done" =>
                /\ NonIncreasingLikes(req[r].i.resp)
                /\ ~req[r].i.hit => IsPermutation(req[r].i.resp, req[r].i.fut.posts)
          /\ (req[r].kind \in {"instagram", "followees"} /\ req[r].status = 200)
                => /\ req[r].resp.posts = req[r].i.resp
                   /\ NonIncreasingLikes(req[r].resp.posts)
    /\ \A k \in DOMAIN ig_cache : NonIncreasingLikes(ig_cache[k].val)
    /\ \A k \in DOMAIN followee_cache : NonIncreasingLikes(followee_cache[k].val)

\* an Instagram request answered with three posts that the adapter had
\* returned in another order, the one with the fewest likes first
C25_Witness ==
    \E r \in Req :
        /\ req[r].kind = "instagram"
        /\ req[r].status = 200
        /\ ~req[r].i.hit
        /\ Len(req[r].i.fut.posts) = 3
        /\ ~NonIncreasingLikes(req[r].i.fut.posts)
        /\ req[r].resp.posts # req[r].i.fut.posts
        /\ IgEntry(r) # None
        /\ IgEntry(r).val = req[r].resp.posts

\* the bucket search_osm puts an element in
BucketOfElem(el) ==
    IF el.amenity \in _EAT_AMENITY THEN "eat"
    ELSE IF el.tourism \in _SLEEP_TOURISM THEN "sleep"
    ELSE "do"

\* the positions in the response of the elements bucket b keeps: those of the
\* bucket that have a name no earlier element of the bucket has
KeptPositions(b) ==
    {i \in 1..Len(osm_elements) :
        /\ BucketOfElem(osm_elements[i]) = b
        /\ osm_elements[i].name # ""
        /\ \A j \in 1..(i - 1) :
              ~(/\ BucketOfElem(osm_elements[j]) = b
                /\ osm_elements[j].name = osm_elements[i].name)}

RECURSIVE Ascending(_)
Ascending(S) ==
    IF S = {} THEN <<>>
    ELSE LET m == CHOOSE x \in S : \A y \in S : x <= y
         IN  <<m>> \o Ascending(S \ {m})

DistinctNames(places) ==
    \A i, j \in 1..Len(places) : i # j => places[i].name # places[j].name

\* C26: in each bucket of a parsed response no two places have the same name,
\* and the places are those of the elements of the bucket that are the first
\* of the bucket with their name, in the order of the response (the first
\* twelve of them).
C26_FirstOfEachName ==
    (osm_out # None /\ osm_out.raw # None) =>
       \A b \in {"eat", "do", "sleep"} :
          LET kept == Take(Ascending(KeptPositions(b)), ParseLimit)
          IN  /\ DistinctNames(osm_out[b])
              /\ Len(osm_out[b]) = Len(kept)
              /\ \A i \in 1..Len(kept) :
                    osm_out[b][i] = PlaceOf(osm_elements[kept[i]])

\* a bucket that received three elements, the first and the third of them
\* different elements with one name, and holds two places
C26_Witness ==
    /\ osm_out # None
    /\ osm_out.raw # None
    /\ \E b \in {"eat", "do", "sleep"} :
          /\ Len(osm_out.raw[b]) = 3
          /\ osm_out.raw[b][1].name = osm_out.raw[b][3].name
          /\ osm_out.raw[b][1] # osm_out.raw[b][3]
          /\ osm_out.raw[b][2].name # osm_out.raw[b][1].name
          /\ Len(osm_out[b]) = 2
          /\ osm_out[b][1].name = osm_out.raw[b][1].name

\* the accounts of the following list that mention the location
Mentioning == {f.username : f \in {x \in Range(fol.world.followees) : x.mentions}}

\* the number of the first i accounts examined that gave a post
HitsIn(i) == Len(SelectSeq(SubSeq(fol.log, 1, i), LAMBDA e : e.hit))

\* C27: in a run of the followee search every account examined in the
\* priority pass mentions the location and every other does not; no account
\* is examined in the fallback pass before every priority account has been;
\* at most 24 posts of a priority account and at most 6 posts of a fallback
\* account are taken; an account is examined once and gives at most one post;
\* and no account is examined once 9 posts are collected, so that the result
\* has at most 9 posts.
C27_PriorityFirstBoundedScan ==
    fol.pc # "idle"
    => /\ \A i \in 1..Len(fol.log) :
             /\ fol.log[i].pass = "priority" <=> fol.log[i].account \in Mentioning
             /\ fol.log[i].pass = "priority" => fol.log[i].scanned <= 24
             /\ fol.log[i].pass = "fallback" => fol.log[i].scanned <= 6
             /\ HitsIn(i - 1) < 9
             /\ \A j \in 1..Len(fol.log) :
                   /\ (i < j /\ fol.log[i].pass = "fallback")
                         => fol.log[j].pass = "fallback"
                   /\ i # j => fol.log[i].account # fol.log[j].account
       /\ (\E i \in 1..Len(fol.log) : fol.log[i].pass = "fallback")
             => \A k \in 1..Len(fol.priority) :
                   \E i \in 1..Len(fol.log) :
                      /\ fol.log[i].account = fol.priority[k].username
                      /\ fol.log[i].pass = "priority"
       /\ Len(fol.results) = HitsIn(Len(fol.log))
       /\ Len(fol.results) <= 9
       /\ \A i, j \in 1..Len(fol.results) :
             i # j => fol.results[i].shortcode[1] # fol.results[j].shortcode[1]
       /\ (fol.pc = "done" /\ fol.result.warnings = <<>>)
             => fol.result.posts = fol.results

\* the cache holds an entry for the key that is younger than the TTL
FreshIn(cache, key) == key \in DOMAIN cache /\ now - cache[key].ts < _CACHE_TTL

\* the key a request is stored under: by location and category, or by user
\* name and location
LocCatKey(r) == <<StrStrip(StrLower(req[r].location)), req[r].category>>

UserLocKey(r) ==
    <<StrStrip(StrLower(req[r].ig_username)), StrStrip(StrLower(req[r].location))>>

\* C28: no step of a places request changes the Instagram cache, the followee
\* cache, the executor or the login state, and whether it is served from a
\* cache depends on the places cache alone; no step of an Instagram or
\* followees request changes the places cache or the geocode cache or starts
\* a frame of search_places, and whether it is served from a cache depends on
\* its own cache alone, also when another cache holds an entry under the same
\* key.
C28_FastSlowIndependent ==
    [][\A r \in Req :
        /\ (req[r].kind = "places" /\ req'[r] # req[r])
           => /\ UNCHANGED <<ig_cache, followee_cache, executor, logged_in>>
              /\ req'[r].i = I0
              /\ req'[r].calls.jobs = 0
              /\ PlacesChecks(r)
                    => (req'[r].p.hit <=> FreshIn(places_cache, LocCatKey(r)))
        /\ (req[r].kind \in {"instagram", "followees"} /\ req'[r] # req[r])
           => /\ UNCHANGED <<places_cache, geocode_cache>>
              /\ req'[r].p = P0 /\ req'[r].o = O0 /\ req'[r].g = G0
              /\ req'[r].calls.geocode = 0 /\ req'[r].calls.overpass = 0
              /\ (IgChecks(r) /\ req[r].kind = "instagram")
                    => /\ req'[r].i.hit <=> FreshIn(ig_cache, LocCatKey(r))
                       /\ ~req'[r].i.hit
                             => executor'.queue = Append(executor.queue, Job(r))
              /\ (IgChecks(r) /\ req[r].kind = "followees")
                    => /\ req'[r].i.hit <=> FreshIn(followee_cache, UserLocKey(r))
                       /\ ~req'[r].i.hit
                             => executor'.queue = Append(executor.queue, Job(r))
      ]_vars

\* a places request answered after a fetch, with nothing cached for Instagram
\* under its key, while the Instagram request for the same location and
\* category still waits for its job
C28_Witness ==
    \E r, r2 \in Req :
        /\ req[r].kind = "places"
        /\ req[r].status = 200
        /\ ~req[r].p.hit
        /\ req[r].calls.jobs = 0
        /\ req[r2].kind = "instagram"
        /\ req[r2].i.pc = "await"
        /\ LocCatKey(r2) = LocCatKey(r)
        /\ LocCatKey(r) \in DOMAIN places_cache
        /\ LocCatKey(r) \notin DOMAIN ig_cache
        /\ Len(executor.queue) + Len(executor.running) = 1

\* C29: when a logged-in run of _search_sync returns, each of the categories
\* eat, do, sleep has a post of that category in the result or its "No
\* Instagram results" warning in the warnings, also when the posts fetched
\* for it had all been collected for an earlier category.
C29_PostOrWarningPerCategory ==
    (sync.pc = "done" /\ sync.log # <<>>)
    => \A c \in Range(SyncCats) :
          \/ \E i \in 1..Len(sync.result.posts) :
                sync.result.posts[i].post_category = c
          \/ NoResultsWarning(sync.location, c) \in Range(sync.result.warnings)

\* a job whose request has timed out returns in this step
OrphanReturns ==
    /\ Len(executor'.running) < Len(executor.running)
    /\ \A k \in 1..Len(executor.running) : executor.running[k].owner = 0

\* the job of request r returns in this step
OwnJobReturns(r) ==
    /\ Len(executor'.running) < Len(executor.running)
    /\ \E k \in 1..Len(executor.running) : executor.running[k].owner = r

\* request r, holding the result of its own job, stores its posts in this step
StoresOwnResult(r) ==
    /\ req[r].i.pc = "ready"
    /\ req'[r].i.pc = "done"
    /\ ~req[r].i.timed_out
    /\ req[r].i.fut.posts # <<>>
    /\ IsPermutation(req'[r].i.resp, req[r].i.fut.posts)
    /\ IF req[r].kind = "followees"
       THEN followee_cache' =
               CachePut(followee_cache, UserLocKey(r),
                        [ts |-> now, val |-> req'[r].i.resp])
       ELSE ig_cache' =
               CachePut(ig_cache, LocCatKey(r), [ts |-> now, val |-> req'[r].i.resp])

\* C30: a request whose deadline passes while its job is queued or running
\* holds the empty default from then on, is answered with no posts and
\* changes no cache; a queued job of it never runs; the return of a job
\* whose request timed out changes no request and no cache; a request gets a
\* result only from its own job; and a cache changes only when a request
\* that got the result of its own job stores it.
C30_LateResultDropped ==
    /\ [](\A r \in Req :
             /\ req[r].i.timed_out
                => /\ req[r].i.fut = [posts |-> <<>>, warnings |-> <<>>]
                   /\ req[r].i.resp = <<>>
                   /\ JobsOf(r) = 0
                   /\ req[r].status # 0
                         => req[r].status = 200 /\ req[r].resp = [posts |-> <<>>])
    /\ [][/\ OrphanReturns
               => UNCHANGED <<req, ig_cache, followee_cache, places_cache>>
          /\ \A r \in Req :
                /\ (req[r].i.pc = "await" /\ req'[r].i.pc = "ready")
                      => \/ req'[r].i.timed_out /\ JobsOf(r) = 1
                         \/ ~req'[r].i.timed_out /\ OwnJobReturns(r)
                /\ (req[r].i.timed_out /\ req'[r] # req[r])
                      => UNCHANGED <<ig_cache, followee_cache, places_cache>>
          /\ (ig_cache' # ig_cache \/ followee_cache' # followee_cache)
               => \E r \in Req : StoresOwnResult(r)
         ]_vars

\* the only request so far timed out while its job was running and has been
\* answered with no posts; the job has returned since (it logged in), and no
\* cache holds anything
C30_Witness ==
    \E r \in Req :
        /\ served = 1
        /\ req[r].status = 200
        /\ req[r].i.timed_out
        /\ req[r].resp = [posts |-> <<>>]
        /\ logged_in
        /\ executor = [queue |-> <<>>, running |-> <<>>]
        /\ ig_cache = EmptyCache /\ followee_cache = EmptyCache
====
